---- MODULE Spec2Model ----
(***************************************************************************)
(* Project Dependency Graph & Context Cache of codexa-ai.                  *)
(*                                                                         *)
(* project-detector (mapProjectStructure, buildDependencyGraph,            *)
(* analyzeProject), relationship-tracker (updateFileRelationships,         *)
(* findDependentFiles, ...), project-context (the two storage slots, the   *)
(* context state, getRelatedFiles, ...) and the analyze-project tool.      *)
(*                                                                         *)
(* Strings are sequences of one-character strings, so that the string      *)
(* operations of the source (split, startsWith, includes, the extension    *)
(* tests, path.join) are computed as the source computes them.             *)
(***************************************************************************)
EXTENDS Integers, Sequences, FiniteSets, TLC

(***************************************************************************)
(* Strings.  A JavaScript string is modelled by the sequence of its        *)
(* characters, so that split, startsWith, includes and the tests of file   *)
(* extensions are computed on it.  Str[s] is that sequence for every       *)
(* string literal s below: the literals of the source and the paths and    *)
(* import specifiers of the project trees explored.                        *)
(***************************************************************************)
Chars(s) == [i \in 1..Len(s) |-> SubSeq(s, i, i)]

StringLiterals ==
  { "ts", "tsx", "js", "jsx", "py", "rs", "sol", "vue", "svelte", "sh",
    "json", "index", "node_modules", "@types/", "contracts", "src", "scripts",
    "programs", "backend", "server", "api", "app", "frontend", "client",
    "web", "components", "pages", "test", "tests", "__tests__", "dist",
    "build", "out", ".next", ".git", ".coder", ".test.", ".spec.", ".config.",
    "config.", "tsconfig.json", "package.json", "hardhat.config.",
    "foundry.toml", "Anchor.toml", "next.config.", "deploy.", "migrate.",
    "seed.", "/proj", "api/a.ts", "api/b.ts", "api/n.py", "api/u.test.ts",
    "scripts/deploy.sol", "app/api/r.ts", "api/app.config.ts", "lib/x.ts",
    "readme.md", "node_modules/m.ts", "./b", "./a", "lodash", "import \"",
    "\"\n", "hardhat.config.ts", "hardhat.config.js", "truffle-config.js",
    "truffle.js", "brownie-config.yaml", "brownie-config.yml",
    "next.config.js", "next.config.ts", "next.config.mjs", "server.js",
    "server.ts", "app.js", "app.ts", "app.py", "main.py", "manage.py",
    "wsgi.py", "asgi.py", "venv", "env", "mjs", "cjs", "pages/", "app/",
    "pnpm-lock.yaml", "yarn.lock", "bun.lockb", "bun.lock",
    "package-lock.json", "apps", "packages", "workspaces", "lerna.json",
    "pnpm-workspace.yaml", "rush.json", "hardhat",
    "@nomicfoundation/hardhat-toolbox", "@anchor-lang/anchor", "truffle",
    "next", "express", "fastify", "@nestjs/core", "fastapi", "uvicorn",
    "django", "flask", "react", "react-dom", "vue3", "solid-js", "a.ts", "b.ts", "b.js", "./missing",
    "./b.js", ".ts", ".tsx", ".js", ".jsx", "/index.ts", "/index.tsx",
    "/index.js", "/index.jsx", "foundry", "Anchor", "tsconfig",
    "Contracts: ", "Backend: ", "Frontend: ", "Stack: ", ", ", ". ", "...",
    "Currently working on: ", " layer", "Focus files: ", "Structure: ",
    " contracts", " backend files", " frontend files", "app/p.tsx", "z.js",
    "contracts/Token.sol", "test/Token.test.ts", "scripts/deploy.ts",
    "./Token", "api/tsconfig.json", "app/tsconfig.json",
    "app/next.config.js" }

Str == [s \in StringLiterals |-> Chars(s)]

(***************************************************************************)
(* String operations of the JavaScript runtime                             *)
(***************************************************************************)
StartsWith(s, p) == Len(p) <= Len(s) /\ SubSeq(s, 1, Len(p)) = p

EndsWith(s, p) == Len(p) <= Len(s) /\ SubSeq(s, Len(s) - Len(p) + 1, Len(s)) = p

Includes(s, p) == \E i \in 0..(Len(s) - Len(p)) : SubSeq(s, i + 1, i + Len(p)) = p

(* String.prototype.split on a set of one-character separators *)
RECURSIVE SplitOn(_, _)
SplitOn(s, seps) ==
  IF \A i \in 1..Len(s) : s[i] \notin seps
  THEN <<s>>
  ELSE LET i == CHOOSE k \in 1..Len(s) :
                  s[k] \in seps /\ \A j \in 1..(k - 1) : s[j] \notin seps
       IN <<SubSeq(s, 1, i - 1)>> \o SplitOn(SubSeq(s, i + 1, Len(s)), seps)

(* Array.prototype.join *)
RECURSIVE JoinOn(_, _)
JoinOn(parts, sep) ==
  IF parts = <<>> THEN <<>>
  ELSE IF Len(parts) = 1 THEN parts[1]
  ELSE parts[1] \o sep \o JoinOn(Tail(parts), sep)

Last(s) == s[Len(s)]

Front(s) == SubSeq(s, 1, Len(s) - 1)

SeqToSet(s) == {s[i] : i \in 1..Len(s)}

(* Array.prototype.slice(0, n) *)
Slice0(s, n) == SubSeq(s, 1, IF n < Len(s) THEN n ELSE Len(s))

(***************************************************************************)
(* node:path (posix)                                                       *)
(***************************************************************************)
Segments(p) == SplitOn(p, {"/"})

Basename(p) == Last(Segments(p))

DirSegments(p) == Front(Segments(p))

(* path.dirname of a relative path without trailing slash *)
dirname(p) ==
  IF Len(Segments(p)) = 1 THEN <<".">>
  ELSE JoinOn(DirSegments(p), <<"/">>)

(* path.normalize on the segments of a relative path: "." is dropped and   *)
(* ".." removes the segment before it, or stays when there is none         *)
RECURSIVE NormalizeSegs(_, _)
NormalizeSegs(todo, done) ==
  IF todo = <<>> THEN done
  ELSE LET s == Head(todo) IN
       IF s = <<>> \/ s = <<".">> THEN NormalizeSegs(Tail(todo), done)
       ELSE IF s = <<".", ".">>
            THEN IF done # <<>> /\ Last(done) # <<".", ".">>
                 THEN NormalizeSegs(Tail(todo), Front(done))
                 ELSE NormalizeSegs(Tail(todo), Append(done, s))
            ELSE NormalizeSegs(Tail(todo), Append(done, s))

(* path.join(a, b) for relative a *)
join(a, b) ==
  LET segs == NormalizeSegs(Segments(a \o <<"/">> \o b), <<>>)
  IN IF segs = <<>> THEN <<".">> ELSE JoinOn(segs, <<"/">>)

(***************************************************************************)
(* globby: the directory walk and the glob patterns                        *)
(***************************************************************************)
(* Every path the modelled trees may contain, in the order of the walk *)
DiskOrder ==
  << Str["a.ts"], Str["api/a.ts"], Str["api/app.config.ts"], Str["api/b.ts"], Str["api/n.py"], Str["api/u.test.ts"], Str["app/api/r.ts"],
     Str["b.js"], Str["b.ts"], Str["lib/x.ts"], Str["node_modules/m.ts"], Str["package.json"], Str["readme.md"], Str["scripts/deploy.sol"] >>

defaultIgnore == {Str["node_modules"], Str["dist"], Str["build"], Str["out"], Str[".next"], Str[".git"], Str[".coder"]}

(* the ignore patterns "**/<dir>/**" *)
Ignored(p, dirs) == \E i \in 1..Len(DirSegments(p)) : DirSegments(p)[i] \in dirs

(* dot: false -- no segment matched by a wildcard starts with a dot *)
Hidden(p) == \E i \in 1..Len(Segments(p)) : StartsWith(Segments(p)[i], <<".">>)

(* "*.{e1,e2}" on a file name *)
HasExt(name, exts) == \E e \in exts : EndsWith(name, <<".">> \o e)

(* "<d1>/<d2>/**/*.{exts}" *)
UnderWithExt(p, dirs, exts) ==
  /\ Len(DirSegments(p)) >= Len(dirs)
  /\ SubSeq(DirSegments(p), 1, Len(dirs)) = dirs
  /\ HasExt(Basename(p), exts)

(* "**/*<suffix>" *)
AnyEndsWith(p, suffixes) == \E s \in suffixes : EndsWith(Basename(p), s)

(* "**/<prefix>*" *)
AnyStartsWith(p, prefixes) == \E s \in prefixes : StartsWith(Basename(p), s)

(* "**/<infix>{exts}" with a wildcard in front, e.g. "**/*.test.{ts,js}" *)
AnyInfixExt(p, infix, exts) == \E e \in exts : EndsWith(Basename(p), infix \o e)

(* globby(patterns, {cwd, ignore}) as the walk filtered by the patterns *)
Globby(files, Match(_), ignoreDirs) ==
  SelectSeq(DiskOrder,
            LAMBDA p : p \in files /\ ~Ignored(p, ignoreDirs) /\ ~Hidden(p) /\ Match(p))

ContractsPattern(p) ==
  \/ UnderWithExt(p, <<Str["contracts"]>>, {Str["sol"], Str["rs"]})
  \/ UnderWithExt(p, <<Str["src"]>>, {Str["sol"], Str["rs"]})
  \/ UnderWithExt(p, <<Str["scripts"]>>, {Str["sol"]})
  \/ UnderWithExt(p, <<Str["programs"]>>, {Str["rs"]})

BackendPattern(p) ==
  \/ UnderWithExt(p, <<Str["backend"]>>, {Str["ts"], Str["js"], Str["tsx"], Str["jsx"], Str["py"]})
  \/ UnderWithExt(p, <<Str["server"]>>, {Str["ts"], Str["js"], Str["tsx"], Str["jsx"], Str["py"]})
  \/ UnderWithExt(p, <<Str["api"]>>, {Str["ts"], Str["js"], Str["tsx"], Str["jsx"], Str["py"]})
  \/ UnderWithExt(p, <<Str["src"], Str["api"]>>, {Str["ts"], Str["js"], Str["tsx"], Str["jsx"]})
  \/ UnderWithExt(p, <<Str["src"], Str["server"]>>, {Str["ts"], Str["js"], Str["tsx"], Str["jsx"]})
  \/ UnderWithExt(p, <<Str["src"], Str["backend"]>>, {Str["ts"], Str["js"], Str["tsx"], Str["jsx"]})
  \/ UnderWithExt(p, <<Str["app"], Str["api"]>>, {Str["ts"], Str["js"], Str["tsx"], Str["jsx"]})

FrontendExts == {Str["ts"], Str["js"], Str["tsx"], Str["jsx"], Str["vue"], Str["svelte"]}

FrontendPattern(p) ==
  \/ UnderWithExt(p, <<Str["frontend"]>>, FrontendExts)
  \/ UnderWithExt(p, <<Str["client"]>>, FrontendExts)
  \/ UnderWithExt(p, <<Str["web"]>>, FrontendExts)
  \/ UnderWithExt(p, <<Str["src"], Str["components"]>>, FrontendExts)
  \/ UnderWithExt(p, <<Str["src"], Str["pages"]>>, FrontendExts)
  \/ UnderWithExt(p, <<Str["src"], Str["app"]>>, FrontendExts)
  \/ UnderWithExt(p, <<Str["app"]>>, FrontendExts)
  \/ UnderWithExt(p, <<Str["pages"]>>, FrontendExts)
  \/ UnderWithExt(p, <<Str["components"]>>, FrontendExts)

TestExts == {Str["ts"], Str["js"], Str["tsx"], Str["jsx"], Str["sol"], Str["rs"], Str["py"]}

TestsPattern(p) ==
  \/ AnyInfixExt(p, Str[".test."], TestExts)
  \/ AnyInfixExt(p, Str[".spec."], TestExts)
  \/ UnderWithExt(p, <<Str["test"]>>, TestExts)
  \/ UnderWithExt(p, <<Str["tests"]>>, TestExts)
  \/ UnderWithExt(p, <<Str["__tests__"]>>, {Str["ts"], Str["js"], Str["tsx"], Str["jsx"], Str["py"]})

ConfigPattern(p) ==
  \/ AnyInfixExt(p, Str[".config."], {Str["ts"], Str["js"], Str["json"]})
  \/ AnyInfixExt(p, Str["config."], {Str["ts"], Str["js"], Str["json"]})
  \/ Basename(p) = Str["tsconfig.json"]
  \/ Basename(p) = Str["package.json"]
  \/ AnyStartsWith(p, {Str["hardhat.config."]})
  \/ Basename(p) = Str["foundry.toml"]
  \/ Basename(p) = Str["Anchor.toml"]
  \/ AnyStartsWith(p, {Str["next.config."]})

ScriptsPattern(p) ==
  \/ UnderWithExt(p, <<Str["scripts"]>>, {Str["ts"], Str["js"], Str["py"], Str["sh"]})
  \/ AnyStartsWith(p, {Str["deploy."], Str["migrate."], Str["seed."]})

SourcePattern(p) == HasExt(Basename(p), {Str["ts"], Str["js"], Str["tsx"], Str["jsx"], Str["py"], Str["rs"], Str["sol"]})

(***************************************************************************)
(* project-detector: mapProjectStructure                                   *)
(***************************************************************************)
mapProjectStructure(files) ==
  LET contracts == Globby(files, ContractsPattern, defaultIgnore)
      backend == Globby(files, BackendPattern, defaultIgnore)
      frontend == Globby(files, FrontendPattern, defaultIgnore)
      tests == Globby(files, TestsPattern, defaultIgnore)
      config == Globby(files, ConfigPattern, defaultIgnore)
      scripts == Globby(files, ScriptsPattern, defaultIgnore)
      allSourceFiles == Globby(files, SourcePattern, defaultIgnore)
      categorized == SeqToSet(contracts) \cup SeqToSet(backend) \cup SeqToSet(frontend)
                       \cup SeqToSet(tests) \cup SeqToSet(config) \cup SeqToSet(scripts)
      other == SelectSeq(allSourceFiles, LAMBDA f : f \notin categorized)
  IN [contracts |-> contracts, backend |-> backend, frontend |-> frontend,
      tests |-> tests, config |-> config, scripts |-> scripts, other |-> other]

(***************************************************************************)
(* File contents.  A file's text is a sequence of import statements, one   *)
(* per line; the content of a file is kept as the sequence of the module   *)
(* specifiers of these statements, which is what importRegex.exec yields   *)
(* match by match.                                                         *)
(***************************************************************************)

RECURSIVE RawText(_)
RawText(specs) ==
  IF specs = <<>> THEN <<>>
  ELSE Str["import \""] \o Head(specs) \o Str["\"\n"] \o RawText(Tail(specs))

(***************************************************************************)
(* Import resolution, shared by buildDependencyGraph and                   *)
(* extractImportsFromFile                                                  *)
(***************************************************************************)
TsJsExts == {Str["ts"], Str["tsx"], Str["js"], Str["jsx"]}

(* /\.(ts|tsx|js|jsx)$/.test(f) *)
IsTsJs(f) == HasExt(f, TsJsExts)

(* the files a relationship may point to: every category but config *)
AllFiles(structure) ==
  SeqToSet(structure.contracts) \cup SeqToSet(structure.backend)
    \cup SeqToSet(structure.frontend) \cup SeqToSet(structure.tests)
    \cup SeqToSet(structure.scripts) \cup SeqToSet(structure.other)

(* importPath.includes("node_modules") || importPath.startsWith("@types/") *)
SkippedImport(importPath) ==
  Includes(importPath, Str["node_modules"]) \/ StartsWith(importPath, Str["@types/"])

IsRelativeImport(importPath) ==
  StartsWith(importPath, <<".">>) \/ StartsWith(importPath, <<"/">>)

(* resolvedBase.split(/[/\\]/).filter(Boolean).join("/") *)
NormalizeSeparators(resolvedBase) ==
  JoinOn(SelectSeq(SplitOn(resolvedBase, {"/", "\\"}), LAMBDA seg : seg # <<>>), <<"/">>)

ResolvedBase(file, importPath) ==
  IF StartsWith(importPath, <<"/">>)
  THEN SubSeq(importPath, 2, Len(importPath))
  ELSE join(dirname(file), importPath)

(* the candidates with the .js endings tried before the .ts endings *)
possiblePaths_JsFirst(normalized) ==
  << normalized,
     normalized \o <<".">> \o Str["js"],
     normalized \o <<".">> \o Str["jsx"],
     normalized \o <<".">> \o Str["ts"],
     normalized \o <<".">> \o Str["tsx"],
     normalized \o <<"/">> \o Str["index"] \o <<".">> \o Str["js"],
     normalized \o <<"/">> \o Str["index"] \o <<".">> \o Str["jsx"],
     normalized \o <<"/">> \o Str["index"] \o <<".">> \o Str["ts"],
     normalized \o <<"/">> \o Str["index"] \o <<".">> \o Str["tsx"] >>

possiblePaths(normalized) ==
  << normalized,
     normalized \o <<".">> \o Str["ts"],
     normalized \o <<".">> \o Str["tsx"],
     normalized \o <<".">> \o Str["js"],
     normalized \o <<".">> \o Str["jsx"],
     normalized \o <<"/">> \o Str["index"] \o <<".">> \o Str["ts"],
     normalized \o <<"/">> \o Str["index"] \o <<".">> \o Str["tsx"],
     normalized \o <<"/">> \o Str["index"] \o <<".">> \o Str["js"],
     normalized \o <<"/">> \o Str["index"] \o <<".">> \o Str["jsx"] >>

(* possiblePaths.find(pred): the first element satisfying pred, as a       *)
(* sequence of length 0 or 1                                               *)
FindFirst(seq, Pred(_)) == Slice0(SelectSeq(seq, Pred), 1)

(* the edges one relative import of `file` yields: at most one *)
RelativeImportEdges(file, importPath, allFiles) ==
  LET normalized == NormalizeSeparators(ResolvedBase(file, importPath))
      matchedPath == FindFirst(possiblePaths(normalized), LAMBDA p : p \in allFiles)
  IN IF matchedPath # <<>>
     THEN << [from |-> file, to |-> matchedPath[1], type |-> "import"] >>
     ELSE <<>>

(***************************************************************************)
(* relationship-tracker: extractImportsFromFile                            *)
(***************************************************************************)
RECURSIVE extractImportsFromFile(_, _, _)
extractImportsFromFile(filePath, content, allFiles) ==
  IF content = <<>> THEN <<>>
  ELSE LET importPath == Head(content)
           rest == extractImportsFromFile(filePath, Tail(content), allFiles)
       IN IF SkippedImport(importPath) THEN rest
          ELSE IF IsRelativeImport(importPath)
               THEN RelativeImportEdges(filePath, importPath, allFiles) \o rest
               ELSE rest

(***************************************************************************)
(* The project tree on disk, as the operations read it:                    *)
(*   exists      the paths existsSync answers true for                     *)
(*   unreadable  the existing paths readFileSync throws on                 *)
(*   content     the text of each path                                     *)
(***************************************************************************)
Disk(exists, unreadable, content) ==
  [exists |-> exists, unreadable |-> unreadable, content |-> content]

(* seq.flatMap(F); the sequence is halved so that the evaluation of a long *)
(* one stays shallow                                                       *)
FlatMap(seq, F(_)) ==
  LET RECURSIVE go(_, _)
      go(lo, hi) ==
        IF lo > hi THEN <<>>
        ELSE IF lo = hi THEN F(seq[lo])
        ELSE go(lo, (lo + hi) \div 2) \o go(((lo + hi) \div 2) + 1, hi)
  IN go(1, Len(seq))

(***************************************************************************)
(* project-detector: buildDependencyGraph                                  *)
(***************************************************************************)
(* "Limit to first 100 files"; slice(0, 101) is MaxFilesToAnalyze_OneMore *)
MaxFilesToAnalyze_OneMore == 100 + 1

MaxFilesToAnalyze == 100

(* "Limit to prevent too many relationships" *)
MaxConfigEdges == 20

Digits == {"0", "1", "2", "3", "4", "5", "6", "7", "8", "9"}

UpperCase ==
  << "A", "B", "C", "D", "E", "F", "G", "H", "I", "J", "K", "L", "M",
     "N", "O", "P", "Q", "R", "S", "T", "U", "V", "W", "X", "Y", "Z" >>

LowerCase ==
  << "a", "b", "c", "d", "e", "f", "g", "h", "i", "j", "k", "l", "m",
     "n", "o", "p", "q", "r", "s", "t", "u", "v", "w", "x", "y", "z" >>

(* s.replace(/[^a-zA-Z0-9]/g, "") *)
StripNonAlnum(s) ==
  SelectSeq(s, LAMBDA c : c \in Digits \cup SeqToSet(UpperCase) \cup SeqToSet(LowerCase))

toLowerCase(s) ==
  [i \in 1..Len(s) |->
     IF s[i] \in SeqToSet(UpperCase)
     THEN LowerCase[CHOOSE k \in 1..26 : UpperCase[k] = s[i]]
     ELSE s[i]]

(* s.replace(/^.*[\\/]/, "") *)
StripDirectory(s) == Last(SplitOn(s, {"/", "\\"}))

(* s.replace(/<suffix>$/, "") for a set of literal suffixes *)
StripSuffix(s, suffixes) ==
  IF \E x \in suffixes : EndsWith(s, x)
  THEN LET x == CHOOSE y \in suffixes :
                  EndsWith(s, y) /\ \A z \in suffixes : EndsWith(s, z) => Len(z) <= Len(y)
       IN SubSeq(s, 1, Len(s) - Len(x))
  ELSE s

contractNameOf(contract) ==
  StripNonAlnum(StripSuffix(StripDirectory(contract), {<<".">> \o Str["sol"], <<".">> \o Str["rs"]}))

TestSuffixes ==
  {infix \o e : infix \in {Str[".test."], Str[".spec."]},
                e \in {Str["ts"], Str["js"], Str["tsx"], Str["jsx"], Str["sol"], Str["rs"]}}

testNameOf(test) == StripNonAlnum(StripSuffix(StripDirectory(test), TestSuffixes))

(* one match of importRegex in a file scanned by the full rebuild *)
FullImportEdges(file, importPath, allFiles) ==
  IF SkippedImport(importPath) THEN <<>>
  ELSE IF IsRelativeImport(importPath)
       THEN RelativeImportEdges(file, importPath, allFiles)
       ELSE IF ~Includes(importPath, <<".">>) /\ ~Includes(importPath, <<"/">>)
            THEN << [from |-> file, to |-> importPath, type |-> "import"] >>
            ELSE <<>>

(* the body of "for (const file of filesToAnalyze)" *)
ScanFile(file, disk, allFiles) ==
  IF file \notin disk.exists THEN <<>>
  ELSE IF file \in disk.unreadable THEN <<>>
  ELSE FlatMap(disk.content[file], LAMBDA importPath : FullImportEdges(file, importPath, allFiles))

(* the body of "for (const contract of structure.contracts)" *)
ContractEdges(contract, structure, disk) ==
  LET contractName == contractNameOf(contract)
      testEdges ==
        FlatMap(structure.tests, LAMBDA test :
          IF Includes(toLowerCase(testNameOf(test)), toLowerCase(contractName))
          THEN << [from |-> test, to |-> contract, type |-> "test"] >>
          ELSE <<>>)
      scriptEdges ==
        FlatMap(structure.scripts, LAMBDA script :
          IF script \in disk.exists /\ script \notin disk.unreadable
             /\ (\/ Includes(RawText(disk.content[script]), contractName)
                 \/ Includes(RawText(disk.content[script]), contract))
          THEN << [from |-> script, to |-> contract, type |-> "config"] >>
          ELSE <<>>)
  IN IF contractName = <<>> THEN <<>> ELSE testEdges \o scriptEdges

(* the body of "for (const configFile of structure.config)" *)
TsconfigEdges(configFile, structure) ==
  IF Includes(configFile, Str["tsconfig.json"])
  THEN LET configDir == dirname(configFile)
           relatedFiles ==
             SelectSeq(structure.backend \o structure.frontend, LAMBDA f :
               /\ HasExt(f, {Str["ts"], Str["tsx"]})
               /\ \/ dirname(f) = configDir
                  \/ StartsWith(dirname(f), configDir \o <<"/">>))
       IN [i \in 1..Len(Slice0(relatedFiles, MaxConfigEdges)) |->
             [from |-> relatedFiles[i], to |-> configFile, type |-> "config"]]
  ELSE <<>>

buildDependencyGraph(structure, disk) ==
  LET allFiles == AllFiles(structure)
      tsJsFiles == SelectSeq(structure.backend \o structure.frontend \o structure.other, IsTsJs)
      filesToAnalyze == Slice0(tsJsFiles, MaxFilesToAnalyze)
  IN FlatMap(filesToAnalyze, LAMBDA file : ScanFile(file, disk, allFiles))
       \o FlatMap(structure.contracts, LAMBDA contract : ContractEdges(contract, structure, disk))
       \o FlatMap(structure.config, LAMBDA configFile : TsconfigEdges(configFile, structure))

(***************************************************************************)
(* project-detector: the stack probes                                      *)
(***************************************************************************)

(* existsSync(join(cwd, name)) for a file at the project root *)
RootFileExists(disk, name) == name \in disk.exists

(* existsSync(join(cwd, "<dir>/")): some file lies under the directory *)
RootDirExists(disk, dir) ==
  \E p \in disk.exists : Len(DirSegments(p)) >= 1 /\ DirSegments(p)[1] = dir

(* the keys of {...dependencies, ...devDependencies} of package.json; the  *)
(* content of a package.json is the sequence of these names, it declares   *)
(* no workspaces, and a package.json that cannot be read or parsed makes   *)
(* the probe's try block throw                                             *)
PackageDeps(disk) ==
  IF RootFileExists(disk, Str["package.json"]) /\ Str["package.json"] \notin disk.unreadable
  THEN SeqToSet(disk.content[Str["package.json"]])
  ELSE {}

AnyNamed(p, names) == Basename(p) \in names

UnderAnyDir(p, dir) == \E i \in 1..Len(DirSegments(p)) : DirSegments(p)[i] = dir

detectContractFramework(disk) ==
  IF RootFileExists(disk, Str["hardhat.config.ts"]) \/ RootFileExists(disk, Str["hardhat.config.js"])
  THEN "hardhat"
  ELSE IF RootFileExists(disk, Str["foundry.toml"]) THEN "foundry"
  ELSE IF RootFileExists(disk, Str["Anchor.toml"]) THEN "anchor"
  ELSE IF RootFileExists(disk, Str["truffle-config.js"]) \/ RootFileExists(disk, Str["truffle.js"])
  THEN "truffle"
  ELSE IF Str["hardhat"] \in PackageDeps(disk) \/ Str["@nomicfoundation/hardhat-toolbox"] \in PackageDeps(disk)
  THEN "hardhat"
  ELSE IF Str["@anchor-lang/anchor"] \in PackageDeps(disk) THEN "anchor"
  ELSE IF Str["truffle"] \in PackageDeps(disk) THEN "truffle"
  ELSE IF RootFileExists(disk, Str["brownie-config.yaml"]) \/ RootFileExists(disk, Str["brownie-config.yml"])
  THEN "brownie"
  ELSE "null"

HasNextConfig(disk) ==
  \/ RootFileExists(disk, Str["next.config.js"])
  \/ RootFileExists(disk, Str["next.config.ts"])
  \/ RootFileExists(disk, Str["next.config.mjs"])

detectBackendFramework(disk) ==
  LET deps == PackageDeps(disk)
      expressFiles ==
        Globby(disk.exists,
               LAMBDA p : AnyNamed(p, {Str["server.js"], Str["server.ts"], Str["app.js"], Str["app.ts"]}),
               {Str["node_modules"]})
      pythonBackend ==
        Globby(disk.exists,
               LAMBDA p : AnyNamed(p, {Str["app.py"], Str["main.py"], Str["manage.py"], Str["wsgi.py"], Str["asgi.py"]}),
               {Str["node_modules"], Str["venv"], Str["env"]})
      hasDjango ==
        \E i \in 1..Len(pythonBackend) :
          Includes(pythonBackend[i], Str["manage.py"]) \/ Includes(pythonBackend[i], Str["wsgi.py"])
      hasFastAPI == \E i \in 1..Len(pythonBackend) : Includes(pythonBackend[i], Str["asgi.py"])
  IN IF HasNextConfig(disk) THEN "nextjs"
     ELSE IF Str["next"] \in deps THEN "nextjs"
     ELSE IF Str["express"] \in deps THEN "express"
     ELSE IF Str["fastify"] \in deps THEN "fastify"
     ELSE IF Str["@nestjs/core"] \in deps THEN "nest"
     ELSE IF Str["fastapi"] \in deps \/ Str["uvicorn"] \in deps THEN "fastapi"
     ELSE IF Str["django"] \in deps THEN "django"
     ELSE IF Str["flask"] \in deps THEN "flask"
     ELSE IF Len(pythonBackend) > 0
          THEN IF hasDjango THEN "django" ELSE IF hasFastAPI THEN "fastapi" ELSE "flask"
     ELSE IF Len(expressFiles) > 0 THEN "express"
     ELSE "null"

detectFrontendFramework(disk) ==
  LET deps == PackageDeps(disk)
      reactFiles ==
        Globby(disk.exists,
               LAMBDA p : \/ HasExt(Basename(p), {Str["jsx"], Str["tsx"]})
                          \/ UnderAnyDir(p, Str["components"])
                          \/ UnderAnyDir(p, Str["pages"]),
               {Str["node_modules"]})
      hasNextPages ==
        \E i \in 1..Len(reactFiles) :
          Includes(reactFiles[i], Str["pages/"]) \/ Includes(reactFiles[i], Str["app/"])
      vueFiles == Globby(disk.exists, LAMBDA p : HasExt(Basename(p), {Str["vue"]}), {Str["node_modules"]})
  IN IF HasNextConfig(disk) THEN "nextjs"
     ELSE IF Str["next"] \in deps THEN "nextjs"
     ELSE IF Str["react"] \in deps \/ Str["react-dom"] \in deps THEN "react"
     ELSE IF Str["vue"] \in deps \/ Str["vue3"] \in deps THEN "vue"
     ELSE IF Str["svelte"] \in deps THEN "svelte"
     ELSE IF Str["solid-js"] \in deps THEN "solid"
     ELSE IF Len(reactFiles) > 0 THEN (IF hasNextPages THEN "nextjs" ELSE "react")
     ELSE IF Len(vueFiles) > 0 THEN "vue"
     ELSE "null"

detectLanguage(disk) ==
  LET CountOf(exts, ignoreDirs) ==
        Len(Globby(disk.exists, LAMBDA p : HasExt(Basename(p), exts), ignoreDirs))
      counts ==
        << [lang |-> "typescript", count |-> CountOf({Str["ts"], Str["tsx"]}, {Str["node_modules"]})],
           [lang |-> "javascript", count |-> CountOf({Str["js"], Str["jsx"], Str["mjs"], Str["cjs"]}, {Str["node_modules"]})],
           [lang |-> "solidity", count |-> CountOf({Str["sol"]}, {Str["node_modules"]})],
           [lang |-> "rust", count |-> CountOf({Str["rs"]}, {Str["node_modules"]})],
           [lang |-> "python", count |-> CountOf({Str["py"]}, {Str["node_modules"], Str["venv"], Str["env"]})] >>
      maxCount == CHOOSE m \in {counts[i].count : i \in 1..5} :
                    \A i \in 1..5 : counts[i].count <= m
  IN IF RootFileExists(disk, Str["tsconfig.json"]) /\ counts[1].count > 0 THEN "typescript"
     ELSE IF maxCount > 0
          THEN FindFirst(counts, LAMBDA c : c.count = maxCount)[1].lang
          ELSE "null"

detectPackageManager(disk) ==
  IF RootFileExists(disk, Str["pnpm-lock.yaml"]) THEN "pnpm"
  ELSE IF RootFileExists(disk, Str["yarn.lock"]) THEN "yarn"
  ELSE IF RootFileExists(disk, Str["bun.lockb"]) \/ RootFileExists(disk, Str["bun.lock"]) THEN "bun"
  ELSE IF RootFileExists(disk, Str["package-lock.json"]) THEN "npm"
  ELSE "null"

detectMonorepo(disk) ==
  \/ RootDirExists(disk, Str["apps"])
  \/ RootDirExists(disk, Str["packages"])
  \/ RootDirExists(disk, Str["workspaces"])
  \/ RootFileExists(disk, Str["lerna.json"])
  \/ RootFileExists(disk, Str["pnpm-workspace.yaml"])
  \/ RootFileExists(disk, Str["rush.json"])
  \/ Len(Globby(disk.exists, LAMBDA p : Basename(p) = Str["package.json"], {Str["node_modules"]})) > 1

(***************************************************************************)
(* project-detector: analyzeProject                                        *)
(***************************************************************************)
analyzeProject(disk, clock) ==
  LET structure == mapProjectStructure(disk.exists)
  IN [stack |-> [contractFramework |-> detectContractFramework(disk),
                 backendFramework |-> detectBackendFramework(disk),
                 frontendFramework |-> detectFrontendFramework(disk),
                 language |-> detectLanguage(disk),
                 packageManager |-> detectPackageManager(disk),
                 monorepo |-> detectMonorepo(disk)],
      structure |-> structure,
      relationships |-> buildDependencyGraph(structure, disk),
      rootPath |-> Str["/proj"],
      analyzedAt |-> clock]

(***************************************************************************)
(* messageStorage: one slot per key.  A slot is <<>> (getItem answers      *)
(* null) or <<item>>.                                                      *)
(***************************************************************************)
NoItem == <<>>

Item(v) == <<v>>

(* const { cachedAt, ...analysis } = cached; WithoutCachedAt_Whole is the *)
(* item as stored                                                          *)
WithoutCachedAt_Whole(cached) == cached

WithoutCachedAt(cached) == [f \in (DOMAIN cached) \ {"cachedAt"} |-> cached[f]]

(* { ...analysis, cachedAt: Date.now() } *)
WithCachedAt(analysis, clock) ==
  [f \in (DOMAIN analysis) \cup {"cachedAt"} |->
     IF f = "cachedAt" THEN clock ELSE analysis[f]]

(***************************************************************************)
(* project-context: getProjectAnalysis, storeProjectAnalysis               *)
(***************************************************************************)
getProjectAnalysis(slot) ==
  IF slot = NoItem THEN NoItem ELSE Item(WithoutCachedAt(slot[1]))

storeProjectAnalysis(analysis, clock) == Item(WithCachedAt(analysis, clock))

(***************************************************************************)
(* analyze-project tool: getCachedAnalysis, cacheAnalysis                  *)
(***************************************************************************)
CACHE_DURATION_MS == 5 * 60 * 1000

(* getCachedAnalysis_Strict drops an entry exactly CACHE_DURATION_MS old *)
getCachedAnalysis_Strict(slot, clock) ==
  IF slot = NoItem THEN NoItem
  ELSE IF clock - slot[1].cachedAt >= CACHE_DURATION_MS THEN NoItem
  ELSE Item([f \in (DOMAIN slot[1]) \ {"cachedAt"} |-> slot[1][f]])

getCachedAnalysis(slot, clock) ==
  IF slot = NoItem THEN NoItem
  ELSE IF clock - slot[1].cachedAt > CACHE_DURATION_MS THEN NoItem
  ELSE Item(WithoutCachedAt(slot[1]))

cacheAnalysis(analysis, clock) == Item(WithCachedAt(analysis, clock))

(***************************************************************************)
(* project-context / relationship-tracker: the two staleness checks        *)
(***************************************************************************)
DEFAULT_MAX_AGE_MS == 5 * 60 * 1000

isAnalysisStale(slot, clock, maxAgeMs) ==
  IF slot = NoItem \/ slot[1].cachedAt = 0 THEN TRUE
  ELSE clock - slot[1].cachedAt > maxAgeMs

shouldRefreshRelationships(slot, clock, maxAgeMs) ==
  LET analysis == getProjectAnalysis(slot)
  IN IF analysis = NoItem THEN TRUE
     ELSE clock - analysis[1].analyzedAt > maxAgeMs

(***************************************************************************)
(* relationship-tracker: updateFileRelationships, refreshAllRelationships  *)
(* Each yields the content of the analysis slot when the call returns.     *)
(***************************************************************************)
(* analysis.relationships.filter(rel => rel.from !== filePath && rel.to !== filePath) *)
RemoveRelationshipsOf(relationships, filePath) ==
  SelectSeq(relationships, LAMBDA rel : rel.from # filePath /\ rel.to # filePath)

(* a patch that analyses the whole project again *)
PatchedAnalysis_Rescan(slot, filePath, disk, clock) ==
  IF getProjectAnalysis(slot) = NoItem THEN NoItem ELSE Item(analyzeProject(disk, clock))

(* the analysis updateFileRelationships hands to storeProjectAnalysis, or   *)
(* NoItem when it returns without storing                                  *)
PatchedAnalysis(slot, filePath, disk, clock) ==
  LET analysis == getProjectAnalysis(slot) IN
  IF analysis = NoItem THEN NoItem
  ELSE
    LET updatedRelationships == RemoveRelationshipsOf(analysis[1].relationships, filePath)
        newRelationships ==
          IF IsTsJs(filePath)
          THEN extractImportsFromFile(filePath, disk.content[filePath],
                                      AllFiles(analysis[1].structure))
          ELSE <<>>
    IN IF filePath \notin disk.exists
       THEN Item([analysis[1] EXCEPT !.relationships = updatedRelationships,
                                      !.analyzedAt = clock])
       ELSE IF filePath \in disk.unreadable
            THEN NoItem   \* readFileSync throws; the catch block stores nothing
            ELSE Item([analysis[1] EXCEPT
                         !.relationships = updatedRelationships \o newRelationships,
                         !.analyzedAt = clock])

updateFileRelationships(slot, filePath, disk, clock) ==
  LET patched == PatchedAnalysis(slot, filePath, disk, clock)
  IN IF patched = NoItem THEN slot ELSE storeProjectAnalysis(patched[1], clock)

(* the analysis refreshAllRelationships hands to storeProjectAnalysis *)
RefreshedAnalysis(slot, disk, clock) ==
  LET analysis == getProjectAnalysis(slot) IN
  IF analysis = NoItem THEN NoItem
  ELSE Item([analysis[1] EXCEPT
               !.relationships = buildDependencyGraph(analysis[1].structure, disk),
               !.analyzedAt = clock])

refreshAllRelationships(slot, disk, clock) ==
  LET refreshed == RefreshedAnalysis(slot, disk, clock)
  IN IF refreshed = NoItem THEN slot ELSE storeProjectAnalysis(refreshed[1], clock)

(***************************************************************************)
(* project-context: the context state                                      *)
(* A ContextState is a record with the fields                              *)
(*   currentFocus  <<>> when undefined, <<files>> otherwise                *)
(*   recentFiles   a sequence of paths                                     *)
(*   activeLayer   "undefined", "null" or a layer name                     *)
(*   lastUpdated   a time stamp                                            *)
(***************************************************************************)
(* "Limit to 20 most recent" *)
MaxRecentFiles == 20

(* state.recentFiles.slice(0, 3) in getRelatedFiles *)
RecentFocusCount == 3

(* sameDirFiles.slice(0, 3) *)
MaxSameDirFiles == 3

(* segments of an absolute path, or of a relative one resolved against cwd *)
RECURSIVE AbsNormalizeSegs(_, _)
AbsNormalizeSegs(todo, done) ==
  IF todo = <<>> THEN done
  ELSE LET s == Head(todo) IN
       IF s = <<>> \/ s = <<".">> THEN AbsNormalizeSegs(Tail(todo), done)
       ELSE IF s = <<".", ".">>
            THEN AbsNormalizeSegs(Tail(todo), IF done = <<>> THEN done ELSE Front(done))
            ELSE AbsNormalizeSegs(Tail(todo), Append(done, s))

ResolveSegs(p) ==
  IF StartsWith(p, <<"/">>)
  THEN AbsNormalizeSegs(Segments(p), <<>>)
  ELSE AbsNormalizeSegs(Segments(Str["/proj"]) \o Segments(p), <<>>)

(* path.relative(from, to) *)
relative(from, to) ==
  LET f == ResolveSegs(from)
      t == ResolveSegs(to)
      Common(k) == k <= Len(f) /\ k <= Len(t) /\ SubSeq(f, 1, k) = SubSeq(t, 1, k)
      n == CHOOSE k \in 0..Len(f) : Common(k) /\ ~Common(k + 1)
  IN JoinOn([i \in 1..(Len(f) - n) |-> <<".", ".">>] \o SubSeq(t, n + 1, Len(t)), <<"/">>)

(* /^[A-Z]:/.test(filePath) *)
HasDriveLetter(filePath) ==
  Len(filePath) >= 2 /\ filePath[1] \in SeqToSet(UpperCase) /\ filePath[2] = ":"

normalizePath(filePath) ==
  IF StartsWith(filePath, <<"/">>) \/ HasDriveLetter(filePath)
  THEN relative(Str["/proj"], filePath)
  ELSE filePath

getDirectory(filePath) == JoinOn(Front(SplitOn(filePath, {"/"})), <<"/">>)

DefaultContextState(clock) ==
  [currentFocus |-> <<>>, recentFiles |-> <<>>, activeLayer |-> "undefined",
   lastUpdated |-> clock]

getContextState(slot, clock) ==
  IF slot # NoItem THEN slot[1] ELSE DefaultContextState(clock)

(* an update that puts the new recentFiles in front of the stored ones     *)
(* instead of replacing them                                               *)
updateContextState_Concat(slot, updates, clock) ==
  LET current == getContextState(slot, clock)
  IN Item([f \in DOMAIN current |->
             IF f = "lastUpdated" THEN clock
             ELSE IF f = "recentFiles" /\ f \in DOMAIN updates
                  THEN updates[f] \o current[f]
                  ELSE IF f \in DOMAIN updates THEN updates[f]
                       ELSE current[f]])

(* { ...current, ...updates, lastUpdated: Date.now() }, then setItem;       *)
(* yields the content of the context slot                                  *)
updateContextState(slot, updates, clock) ==
  LET current == getContextState(slot, clock)
  IN Item([f \in DOMAIN current |->
             IF f = "lastUpdated" THEN clock
             ELSE IF f \in DOMAIN updates THEN updates[f]
             ELSE current[f]])

(* state.recentFiles.filter(f => f !== normalized); without the filter the *)
(* list is RemoveExisting_Kept                                             *)
RemoveExisting_Kept(recentFiles, normalized) == recentFiles

RemoveExisting(recentFiles, normalized) == SelectSeq(recentFiles, LAMBDA f : f # normalized)

(* recentFiles.slice(0, 20); slice(0, 21) gives LimitRecent_OneMore *)
LimitRecent_OneMore(recentFiles) == Slice0(recentFiles, MaxRecentFiles + 1)

LimitRecent(recentFiles) == Slice0(recentFiles, MaxRecentFiles)

addRecentFile(slot, filePath, clock) ==
  LET state == getContextState(slot, clock)
      normalized == normalizePath(filePath)
      recentFiles == <<normalized>> \o RemoveExisting(state.recentFiles, normalized)
      limited == LimitRecent(recentFiles)
  IN updateContextState(slot, [recentFiles |-> limited], clock)

setCurrentFocus(slot, files, clock) ==
  LET normalized == [i \in 1..Len(files) |-> normalizePath(files[i])]
      RECURSIVE addAll(_, _)
      addAll(s, i) ==
        IF i > Len(normalized) THEN s
        ELSE addAll(addRecentFile(s, normalized[i], clock), i + 1)
  IN addAll(updateContextState(slot, [currentFocus |-> <<normalized>>], clock), 1)

detectLayer(filePath, analysis) ==
  LET normalized == normalizePath(filePath)
  IN IF normalized \in SeqToSet(analysis.structure.contracts) THEN "contract"
     ELSE IF normalized \in SeqToSet(analysis.structure.backend) THEN "backend"
     ELSE IF normalized \in SeqToSet(analysis.structure.frontend) THEN "frontend"
     ELSE IF normalized \in SeqToSet(analysis.structure.tests) THEN "test"
     ELSE IF normalized \in SeqToSet(analysis.structure.config) THEN "config"
     ELSE "null"

(* new Set(): the elements in insertion order *)
SetAdd(s, x) == IF x \in SeqToSet(s) THEN s ELSE Append(s, x)

FoldLeft(seq, init, F(_, _)) ==
  LET RECURSIVE go(_, _)
      go(acc, i) == IF i > Len(seq) THEN acc ELSE go(F(acc, seq[i]), i + 1)
  IN go(init, 1)

(* the existence filter that ends getRelatedFiles; without it the result  *)
(* is ExistingOnly_Unfiltered                                              *)
ExistingOnly_Unfiltered(result, disk) == result

ExistingOnly(result, disk) == SelectSeq(result, LAMBDA f : f \in disk.exists)

(* Array.from(related).slice(0, maxFiles), then the existence filter; the  *)
(* filter applied before the slice gives TruncateAndFilter_FilterFirst     *)
TruncateAndFilter_FilterFirst(related, maxFiles, disk) ==
  Slice0(ExistingOnly(related, disk), maxFiles)

TruncateAndFilter(related, maxFiles, disk) == ExistingOnly(Slice0(related, maxFiles), disk)

(* getRelatedFiles(focusFiles, maxFiles); focusFiles is <<>> when the       *)
(* argument is omitted and <<files>> otherwise                             *)
getRelatedFiles(aSlot, cSlot, focusFiles, maxFiles, disk, clock) ==
  LET analysis == getProjectAnalysis(aSlot) IN
  IF analysis = NoItem THEN <<>>
  ELSE
    LET state == getContextState(cSlot, clock)
        filesToCheck ==
          IF focusFiles # <<>> THEN focusFiles[1]
          ELSE IF state.currentFocus # <<>> THEN state.currentFocus[1]
          ELSE Slice0(state.recentFiles, RecentFocusCount)
        structure == analysis[1].structure
        AddFocus(related, focusFile) ==
          LET normalized == normalizePath(focusFile)
              withEdges ==
                FoldLeft(analysis[1].relationships, related, LAMBDA acc, rel :
                  IF rel.from = normalized THEN SetAdd(acc, rel.to)
                  ELSE IF rel.to = normalized THEN SetAdd(acc, rel.from)
                  ELSE acc)
              dir == getDirectory(normalized)
              sameDirFiles ==
                SelectSeq(structure.contracts \o structure.backend
                            \o structure.frontend \o structure.tests,
                          LAMBDA f : getDirectory(f) = dir /\ f # normalized)
          IN FoldLeft(Slice0(sameDirFiles, MaxSameDirFiles), withEdges, SetAdd)
        related == FoldLeft(filesToCheck, <<>>, AddFocus)
    IN IF filesToCheck = <<>> THEN <<>>
       ELSE TruncateAndFilter(related, maxFiles, disk)

(***************************************************************************)
(* State                                                                   *)
(***************************************************************************)
VARIABLES
  fsExists,      \* the paths that exist under env.cwd
  fsUnreadable,  \* the existing paths that cannot be read
  fsContent,     \* the text of every path (see RawText)
  now,           \* Date.now()
  analysisSlot,  \* messageStorage item "/project-analysis"
  contextSlot,   \* messageStorage item "/project-context-state"
  last,          \* the last call that returned: [op, arg, res]
  dfs,           \* the running findDependentFiles call
  history,       \* the arguments of the addRecentFile calls made or due, oldest first
  lastPut,       \* the analysis handed to the latest storeProjectAnalysis call
  inflight       \* the calls that have read the cache and not yet written it

vars ==
  <<fsExists, fsUnreadable, fsContent, now, analysisSlot, contextSlot, last, dfs, history, lastPut,
    inflight>>

TheDisk == Disk(fsExists, fsUnreadable, fsContent)

NoCall == [op |-> "none", arg |-> <<>>, res |-> <<>>]

(* the callers that may have an addRecentFile call running at a time *)
Callers == {1, 2}

(* no call is between its read and its write of the cache:                 *)
(*   patch    the running updateFileRelationships call                     *)
(*   refresh  the running refreshAllRelationships call                     *)
(*   adds     per caller, the running addRecentFile calls                  *)
(*   calls    how many addRecentFile / setCurrentFocus / tool calls were   *)
(*            made                                                         *)
(*   tool     the running write-file / edit-file call                      *)
NoneInflight ==
  [patch |-> [pc |-> "idle", filePath |-> <<>>, analysis |-> <<>>],
   refresh |-> [pc |-> "idle", analysis |-> <<>>, newRelationships |-> <<>>],
   adds |-> [c \in Callers |-> [pc |-> "idle", pending |-> <<>>, state |-> <<>>]],
   calls |-> 0,
   tool |-> [pc |-> "idle", name |-> "", relativePath |-> <<>>, done |-> <<>>,
             failed |-> {}, alone |-> TRUE, seen |-> <<>>]]

(* no findDependentFiles call is running *)
IdleDfs ==
  [pc |-> "idle", start |-> <<>>, stack |-> <<>>, visited |-> {},
   dependents |-> <<>>, expanded |-> <<>>, result |-> <<>>]

(***************************************************************************)
(* The environment: edits of the project tree and the clock                *)
(***************************************************************************)
WriteFile(p, text) ==
  /\ fsExists' = fsExists \cup {p}
  /\ fsUnreadable' = fsUnreadable \ {p}
  /\ fsContent' = [fsContent EXCEPT ![p] = text]
  /\ last' = [op |-> "writeFile", arg |-> p, res |-> <<>>]
  /\ UNCHANGED <<now, analysisSlot, contextSlot, dfs, history, lastPut, inflight>>

DeleteFile(p) ==
  /\ p \in fsExists
  /\ fsExists' = fsExists \ {p}
  /\ fsUnreadable' = fsUnreadable \ {p}
  /\ fsContent' = [fsContent EXCEPT ![p] = <<>>]
  /\ last' = [op |-> "deleteFile", arg |-> p, res |-> <<>>]
  /\ UNCHANGED <<now, analysisSlot, contextSlot, dfs, history, lastPut, inflight>>

(* the path stays but can no longer be read (its permissions are revoked,  *)
(* or a directory takes its place)                                         *)
MakeUnreadable(p) ==
  /\ p \in fsExists \ fsUnreadable
  /\ fsUnreadable' = fsUnreadable \cup {p}
  /\ fsContent' = [fsContent EXCEPT ![p] = <<>>]
  /\ last' = [op |-> "makeUnreadable", arg |-> p, res |-> <<>>]
  /\ UNCHANGED <<fsExists, now, analysisSlot, contextSlot, dfs, history, lastPut, inflight>>

(* the largest value of the clock *)
MaxNow == 600002

(* how far the clock is followed millisecond by millisecond after each     *)
(* multiple of the cache duration                                          *)
MaxFine == 2

ClockMayAdvance(d) ==
  /\ now + d <= MaxNow
  /\ d < CACHE_DURATION_MS => (now % CACHE_DURATION_MS) + d <= MaxFine

Tick(d) ==
  /\ d > 0
  /\ ClockMayAdvance(d)
  /\ now' = now + d
  /\ last' = [op |-> "tick", arg |-> d, res |-> <<>>]
  /\ UNCHANGED <<fsExists, fsUnreadable, fsContent, analysisSlot, contextSlot, dfs, history,
                 lastPut, inflight>>

(***************************************************************************)
(* analyze-project tool: execute({force}).  d is the time that passes      *)
(* between analyzeProject's Date.now() and the Date.now() of the cache     *)
(* writes that follow it.                                                  *)
(***************************************************************************)
Analyze(force, d) ==
  LET cached == IF force THEN NoItem ELSE getCachedAnalysis(analysisSlot, now)
      analysis == analyzeProject(TheDisk, now)
  IN IF cached # NoItem
     THEN /\ d = 0
          /\ last' = [op |-> "analyze", arg |-> force,
                      res |-> [data |-> cached[1], cached |-> TRUE]]
          /\ UNCHANGED <<fsExists, fsUnreadable, fsContent, now, analysisSlot,
                         contextSlot, dfs, history, lastPut, inflight>>
     ELSE /\ d = 0 \/ ClockMayAdvance(d)
          /\ now' = now + d
             \* cacheAnalysis, then storeProjectAnalysis on the same key
          /\ analysisSlot' = storeProjectAnalysis(analysis, now + d)
          /\ lastPut' = Item(analysis)
          /\ last' = [op |-> "analyze", arg |-> force,
                      res |-> [data |-> analysis, cached |-> FALSE]]
          /\ UNCHANGED <<fsExists, fsUnreadable, fsContent, contextSlot, dfs, history, inflight>>

(***************************************************************************)
(* relationship-tracker calls                                              *)
(***************************************************************************)
PatchFile(filePath) ==
  LET patched == PatchedAnalysis(analysisSlot, filePath, TheDisk, now)
  IN /\ analysisSlot' = updateFileRelationships(analysisSlot, filePath, TheDisk, now)
     /\ lastPut' = IF patched = NoItem THEN lastPut ELSE patched
     /\ last' = [op |-> "updateFileRelationships", arg |-> filePath, res |-> <<>>]
     /\ UNCHANGED <<fsExists, fsUnreadable, fsContent, now, contextSlot, dfs, history, inflight>>

RefreshAll ==
  LET refreshed == RefreshedAnalysis(analysisSlot, TheDisk, now)
  IN /\ analysisSlot' = refreshAllRelationships(analysisSlot, TheDisk, now)
     /\ lastPut' = IF refreshed = NoItem THEN lastPut ELSE refreshed
     /\ last' = [op |-> "refreshAllRelationships", arg |-> <<>>, res |-> <<>>]
     /\ UNCHANGED <<fsExists, fsUnreadable, fsContent, now, contextSlot, dfs, history, inflight>>

(***************************************************************************)
(* Specification Spec: the dependency graph under edits of the tree.       *)
(* The tree is any set of GraphFiles with texts of FileTexts; the clock    *)
(* stands still.                                                           *)
(***************************************************************************)
GraphFiles == {Str["api/a.ts"], Str["api/b.ts"]}

FileTexts == { <<>>, <<Str["./a"]>>, <<Str["./b"], Str["lodash"]>> }

Init ==
  /\ fsExists = {}
  /\ fsUnreadable = {}
  /\ fsContent = [p \in GraphFiles |-> <<>>]
  /\ now = 1
  /\ analysisSlot = NoItem
  /\ contextSlot = NoItem
  /\ last = NoCall
  /\ dfs = IdleDfs
  /\ history = <<>>
  /\ lastPut = NoItem
  /\ inflight = NoneInflight

Next ==
  \/ \E p \in GraphFiles, text \in FileTexts : WriteFile(p, text)
  \/ \E p \in GraphFiles : DeleteFile(p)
  \/ \E p \in GraphFiles : MakeUnreadable(p)
  \/ \E force \in BOOLEAN : Analyze(force, 0)
  \/ \E p \in GraphFiles : PatchFile(p)
  \/ RefreshAll

Spec == Init /\ [][Next]_vars

(* the edges the single-file resolver yields for the current text of p *)
FreshlyResolved(p, structure) ==
  IF IsTsJs(p) THEN extractImportsFromFile(p, fsContent[p], AllFiles(structure)) ELSE <<>>

(* C1: when an analysis is cached, updateFileRelationships(p) leaves as    *)
(* stored relationships the old edges that do not touch p, in their order, *)
(* followed by the edges freshly resolved from p if p exists on disk.      *)
C1_PatchPostcondition ==
  [][ (last'.op = "updateFileRelationships" /\ analysisSlot # NoItem) =>
        LET p == last'.arg
            old == analysisSlot[1].relationships
            kept == SelectSeq(old, LAMBDA rel : rel.from # p /\ rel.to # p)
            fresh == IF p \in fsExists
                     THEN FreshlyResolved(p, analysisSlot[1].structure)
                     ELSE <<>>
        IN /\ analysisSlot' # NoItem
           /\ analysisSlot'[1].relationships = kept \o fresh ]_vars

(* the values of maxFiles the callers pass: the default 10, and 15 *)
MaxFilesChoices == {10, 15}

(* C2: after updateFileRelationships(p), getRelatedFiles([p]) returns no   *)
(* path that does not exist on disk.                                       *)
C2_RelatedExist ==
  last.op = "updateFileRelationships" =>
    \A m \in MaxFilesChoices :
      SeqToSet(getRelatedFiles(analysisSlot, contextSlot, << <<last.arg>> >>, m, TheDisk, now))
        \subseteq fsExists

(* a patched path has a stored edge whose other endpoint is not on disk *)
C2_Witness ==
  /\ last.op = "updateFileRelationships"
  /\ analysisSlot # NoItem
  /\ \E i \in 1..Len(analysisSlot[1].relationships) :
       LET rel == analysisSlot[1].relationships[i]
       IN \/ rel.from = last.arg /\ rel.to \notin fsExists
          \/ rel.to = last.arg /\ rel.from \notin fsExists

(***************************************************************************)
(* Specification SpecStructure: mapProjectStructure on every project tree  *)
(* over StructureUniverse                                                  *)
(***************************************************************************)
StructureUniverse ==
  { Str["api/a.ts"], Str["api/app.config.ts"], Str["api/u.test.ts"], Str["app/api/r.ts"], Str["lib/x.ts"], Str["node_modules/m.ts"],
    Str["package.json"], Str["readme.md"], Str["scripts/deploy.sol"] }

InitStructure ==
  /\ fsExists \in SUBSET StructureUniverse
  /\ fsUnreadable = {}
  /\ fsContent = [p \in StructureUniverse |-> <<>>]
  /\ now = 1
  /\ analysisSlot = NoItem
  /\ contextSlot = NoItem
  /\ last = NoCall
  /\ dfs = IdleDfs
  /\ history = <<>>
  /\ lastPut = NoItem
  /\ inflight = NoneInflight

MapStructure ==
  /\ last.op = "none"
  /\ last' = [op |-> "mapProjectStructure", arg |-> <<>>, res |-> mapProjectStructure(fsExists)]
  /\ UNCHANGED <<fsExists, fsUnreadable, fsContent, now, analysisSlot, contextSlot, dfs,
                 history, lastPut, inflight>>

NextStructure == MapStructure

SpecStructure == InitStructure /\ [][NextStructure]_vars

CategoryNames == <<"contracts", "backend", "frontend", "tests", "config", "scripts", "other">>

(* how many of the seven lists hold f, counting repetitions *)
Occurrences(structure, f) ==
  Len(SelectSeq(FlatMap(CategoryNames, LAMBDA c : structure[c]), LAMBDA g : g = f))

(* the tracked source files: the source-file universe of the last glob *)
TrackedSourceFiles(files) == SeqToSet(Globby(files, SourcePattern, defaultIgnore))

(* C3: mapProjectStructure returns seven pairwise disjoint lists that hold *)
(* every tracked source file exactly once.                                 *)
C3_Disjoint ==
  last.op = "mapProjectStructure" =>
    /\ \A i, j \in 1..7 :
         i # j => SeqToSet(last.res[CategoryNames[i]]) \cap SeqToSet(last.res[CategoryNames[j]]) = {}
    /\ \A f \in TrackedSourceFiles(fsExists) : Occurrences(last.res, f) = 1

(***************************************************************************)
(* relationship-tracker: findDependentFiles, one step of traverse at a     *)
(* time.  dfs holds the locals of the call:                                *)
(*   stack       the active traverse calls, each with its currentFile, its *)
(*               importing list (once computed) and the position idx of    *)
(*               its for loop; idx = 0 is the entry of the call            *)
(*   visited, dependents   the two Sets (dependents in insertion order)    *)
(*   expanded    the files whose importing list was computed, in order     *)
(***************************************************************************)
(* the deepest nesting of traverse calls that is followed *)
MaxDepth == 6

(* if (visited.has(currentFile)) return; AlreadyVisited_Never is the      *)
(* traversal without that test                                             *)
AlreadyVisited_Never(currentFile, visited) == FALSE

AlreadyVisited(currentFile, visited) == currentFile \in visited

(* relationships.filter(rel => rel.to === currentFile && rel.type === "import").map(rel => rel.from) *)
(* ImportersOf_AnyType is the filter without the test of rel.type *)
ImportersOf_AnyType(relationships, currentFile) ==
  LET pointing == SelectSeq(relationships, LAMBDA rel : rel.to = currentFile)
  IN [i \in 1..Len(pointing) |-> pointing[i].from]

ImportersOf(relationships, currentFile) ==
  LET importing == SelectSeq(relationships,
                             LAMBDA rel : rel.to = currentFile /\ rel.type = "import")
  IN [i \in 1..Len(importing) |-> importing[i].from]

FindDependentsCall(filePath) ==
  /\ dfs.pc = "idle"
  /\ IF getProjectAnalysis(analysisSlot) = NoItem
     THEN dfs' = [IdleDfs EXCEPT !.pc = "done", !.start = filePath]
     ELSE dfs' = [IdleDfs EXCEPT !.pc = "running", !.start = filePath,
                                 !.stack = << [file |-> filePath, importing |-> <<>>, idx |-> 0] >>]
  /\ UNCHANGED <<fsExists, fsUnreadable, fsContent, now, analysisSlot, contextSlot, last,
                 history, lastPut, inflight>>

TraverseStep ==
  /\ dfs.pc = "running"
  /\ IF dfs.stack = <<>>
     THEN \* traverse(filePath) returned: return Array.from(dependents)
          dfs' = [dfs EXCEPT !.pc = "done", !.result = dfs.dependents]
     ELSE LET top == Last(dfs.stack)
              depth == Len(dfs.stack)
          IN IF top.idx = 0
             THEN IF AlreadyVisited(top.file, dfs.visited)
                  THEN dfs' = [dfs EXCEPT !.stack = Front(dfs.stack)]
                  ELSE dfs' = [dfs EXCEPT
                                 !.visited = dfs.visited \cup {top.file},
                                 !.expanded = Append(dfs.expanded, top.file),
                                 !.stack[depth] =
                                    [top EXCEPT !.idx = 1,
                                                !.importing =
                                                   ImportersOf(analysisSlot[1].relationships, top.file)]]
             ELSE IF top.idx <= Len(top.importing)
                  THEN /\ depth < MaxDepth
                       /\ dfs' = [dfs EXCEPT
                                    !.dependents = SetAdd(dfs.dependents, top.importing[top.idx]),
                                    !.stack = Append([dfs.stack EXCEPT ![depth].idx = top.idx + 1],
                                                     [file |-> top.importing[top.idx],
                                                      importing |-> <<>>, idx |-> 0])]
                  ELSE dfs' = [dfs EXCEPT !.stack = Front(dfs.stack)]
  /\ UNCHANGED <<fsExists, fsUnreadable, fsContent, now, analysisSlot, contextSlot, last,
                 history, lastPut, inflight>>

(***************************************************************************)
(* Specification SpecGraph: findDependentFiles on every cached edge list   *)
(* of at most MaxEdges edges of GraphEdgeUniverse, and on the empty cache  *)
(***************************************************************************)
GraphNodes == {Str["api/a.ts"], Str["api/b.ts"], Str["lib/x.ts"]}

NonImportTypes == {"test", "config", "contract", "unknown"}

(* the import edges between different files, one self-import, and the     *)
(* edges of every other type from api/b.ts to api/a.ts                    *)
GraphEdgeUniverse ==
  {e \in [from : GraphNodes, to : GraphNodes, type : {"import"}] :
      e.from # e.to \/ e.from = Str["api/a.ts"]}
    \cup [from : {Str["api/b.ts"]}, to : {Str["api/a.ts"]}, type : NonImportTypes]

(* the longest cached edge list *)
MaxEdges == 3

BoundedSeq(S, n) == UNION {[1..k -> S] : k \in 0..n}

EmptyStructure ==
  [contracts |-> <<>>, backend |-> <<>>, frontend |-> <<>>, tests |-> <<>>,
   config |-> <<>>, scripts |-> <<>>, other |-> <<>>]

NullStack ==
  [contractFramework |-> "null", backendFramework |-> "null", frontendFramework |-> "null",
   language |-> "null", packageManager |-> "null", monorepo |-> FALSE]

AnalysisOf(relationships) ==
  [stack |-> NullStack, structure |-> EmptyStructure, relationships |-> relationships,
   rootPath |-> Str["/proj"], analyzedAt |-> 1]

InitGraph ==
  /\ fsExists = {}
  /\ fsUnreadable = {}
  /\ fsContent = <<>>
  /\ now = 1
  /\ analysisSlot \in {NoItem} \cup
       {storeProjectAnalysis(AnalysisOf(es), 1) : es \in BoundedSeq(GraphEdgeUniverse, MaxEdges)}
  /\ contextSlot = NoItem
  /\ last = NoCall
  /\ dfs = IdleDfs
  /\ history = <<>>
  /\ lastPut = NoItem
  /\ inflight = NoneInflight

NextGraph ==
  \/ \E f \in GraphNodes : FindDependentsCall(f)
  \/ TraverseStep

(* the traversal is synchronous code: once called it runs on *)
SpecGraph == InitGraph /\ [][NextGraph]_vars /\ WF_vars(TraverseStep)

NoDuplicates(s) == \A i, j \in 1..Len(s) : i # j => s[i] # s[j]

(* C4: findDependentFiles terminates on every edge list, cyclic ones       *)
(* included, and expands each file at most once.                           *)
C4_Terminates ==
  /\ (dfs.pc = "running") ~> (dfs.pc = "done")
  /\ [](NoDuplicates(dfs.expanded))

(* a call has returned on an edge list holding a two-cycle, after          *)
(* expanding both files of the cycle                                       *)
C4_Witness ==
  /\ dfs.pc = "done"
  /\ analysisSlot # NoItem
  /\ \E i, j \in 1..Len(analysisSlot[1].relationships) :
       LET r == analysisSlot[1].relationships[i]
           q == analysisSlot[1].relationships[j]
       IN /\ r.type = "import" /\ q.type = "import"
          /\ r.from = q.to /\ r.to = q.from /\ r.from # r.to
          /\ {r.from, r.to} \subseteq SeqToSet(dfs.expanded)

(* the files from which f is reached by one or more import edges *)
ImportPairs(relationships) ==
  { <<relationships[i].from, relationships[i].to>> :
      i \in {k \in 1..Len(relationships) : relationships[k].type = "import"} }

RECURSIVE ReachingWithin(_, _, _)
ReachingWithin(pairs, targets, n) ==
  LET step == {pr[1] : pr \in {q \in pairs : q[2] \in targets}}
  IN IF n = 0 THEN {} ELSE step \cup ReachingWithin(pairs, step, n - 1)

TransitiveImporters(relationships, f) ==
  ReachingWithin(ImportPairs(relationships), {f}, Len(relationships))

(* C5: findDependentFiles(f) returns, without duplicates, exactly the      *)
(* files from which f is reached by one or more import edges, and nothing  *)
(* when no analysis is cached.                                             *)
C5_ExactDependents ==
  dfs.pc = "done" =>
    /\ NoDuplicates(dfs.result)
    /\ SeqToSet(dfs.result) =
         IF analysisSlot = NoItem THEN {}
         ELSE TransitiveImporters(analysisSlot[1].relationships, dfs.start)

(* a call has returned a file that only a chain of two import edges        *)
(* connects to the start, while a non-import edge was present              *)
C5_Witness ==
  /\ dfs.pc = "done"
  /\ analysisSlot # NoItem
  /\ \E g \in SeqToSet(dfs.result) :
       <<g, dfs.start>> \notin ImportPairs(analysisSlot[1].relationships)
  /\ \E i \in 1..Len(analysisSlot[1].relationships) :
       analysisSlot[1].relationships[i].type # "import"

(***************************************************************************)
(* project-context calls on the context state                              *)
(***************************************************************************)
AddRecent(filePath) ==
  /\ contextSlot' = addRecentFile(contextSlot, filePath, now)
  /\ history' = Append(history, filePath)
  /\ last' = [op |-> "addRecentFile", arg |-> filePath, res |-> <<>>]
  /\ UNCHANGED <<fsExists, fsUnreadable, fsContent, now, analysisSlot, dfs, lastPut, inflight>>

(***************************************************************************)
(* Specification SpecRecent: series of addRecentFile calls from the        *)
(* default state.  The files are src/f1.ts, src/f2.ts, ...; a call passes  *)
(* the next file not yet added, or adds again the file added last, the     *)
(* first file, or the second file by its absolute path.                    *)
(***************************************************************************)
(* how many files more than MaxRecentFiles are added *)
ExtraFiles == 5

(* how many calls of a series pass a file that was added before *)
MaxReAdds == 1

DecimalChars == <<"0", "1", "2", "3", "4", "5", "6", "7", "8", "9">>

RECURSIVE Decimal(_)
Decimal(n) ==
  IF n < 10 THEN <<DecimalChars[n + 1]>>
  ELSE Decimal(n \div 10) \o <<DecimalChars[(n % 10) + 1]>>

RecentFile(k) == Str["src"] \o <<"/", "f">> \o Decimal(k) \o <<".">> \o Str["ts"]

Absolute(p) == Str["/proj"] \o <<"/">> \o p

(* the files added so far *)
AddedFiles == {normalizePath(history[i]) : i \in 1..Len(history)}

InitRecent ==
  /\ fsExists = {}
  /\ fsUnreadable = {}
  /\ fsContent = <<>>
  /\ now = 1
  /\ analysisSlot = NoItem
  /\ contextSlot = NoItem
  /\ last = NoCall
  /\ dfs = IdleDfs
  /\ history = <<>>
  /\ lastPut = NoItem
  /\ inflight = NoneInflight

AddNextFile ==
  /\ Cardinality(AddedFiles) < MaxRecentFiles + ExtraFiles
  /\ AddRecent(RecentFile(Cardinality(AddedFiles) + 1))

AddAgain ==
  /\ history # <<>>
  /\ Len(history) - Cardinality(AddedFiles) < MaxReAdds
  /\ \E filePath \in {Last(history), RecentFile(1), Absolute(RecentFile(2))} :
       /\ normalizePath(filePath) \in AddedFiles
       /\ AddRecent(filePath)

NextRecent == AddNextFile \/ AddAgain

SpecRecent == InitRecent /\ [][NextRecent]_vars

(* the distinct files of a series of calls, by their last insertion, most  *)
(* recent first                                                            *)
RECURSIVE MostRecentFirst(_)
MostRecentFirst(calls) ==
  IF calls = <<>> THEN <<>>
  ELSE LET f == normalizePath(Last(calls))
           earlier == MostRecentFirst(Front(calls))
       IN <<f>> \o SelectSeq(earlier, LAMBDA g : g # f)

StoredRecentFiles == getContextState(contextSlot, now).recentFiles

(* C6: after any series of addRecentFile calls from the default state,     *)
(* recentFiles holds the distinct files added, by last insertion, most     *)
(* recent first, cut to the first 20.                                      *)
C6_MostRecentFirst ==
  StoredRecentFiles =
    SubSeq(MostRecentFirst(history), 1,
           IF Len(MostRecentFirst(history)) < 20 THEN Len(MostRecentFirst(history)) ELSE 20)

(* 25 distinct files were added and 20 are kept *)
C6_Witness ==
  /\ Cardinality(AddedFiles) = 25
  /\ Len(StoredRecentFiles) = 20
  /\ StoredRecentFiles[1] = RecentFile(25)
  /\ StoredRecentFiles[20] = RecentFile(6)

(* C7: addRecentFile(x) right after addRecentFile(x) leaves recentFiles as *)
(* the first call left it, with x at the head and occurring once.          *)
C7_Idempotent ==
  [][ (last.op = "addRecentFile" /\ last'.op = "addRecentFile" /\ last'.arg = last.arg
         /\ Len(history') = Len(history) + 1) =>
        /\ contextSlot'[1].recentFiles = contextSlot[1].recentFiles
        /\ contextSlot'[1].recentFiles[1] = normalizePath(last.arg)
        /\ Len(SelectSeq(contextSlot'[1].recentFiles,
                         LAMBDA f : f = normalizePath(last.arg))) = 1 ]_vars

(* the same file was added twice in a row while the list was full *)
C7_Witness ==
  /\ Len(history) >= 2
  /\ history[Len(history)] = history[Len(history) - 1]
  /\ Len(StoredRecentFiles) = 20

(***************************************************************************)
(* project-context / relationship-tracker calls on the analysis cache      *)
(***************************************************************************)
(* storeProjectAnalysis(analysis) *)
StoreAnalysis(analysis) ==
  /\ analysisSlot' = storeProjectAnalysis(analysis, now)
  /\ lastPut' = Item(analysis)
  /\ last' = [op |-> "storeProjectAnalysis", arg |-> analysis, res |-> <<>>]
  /\ UNCHANGED <<fsExists, fsUnreadable, fsContent, now, contextSlot, dfs, history, inflight>>

(* getProjectAnalysis() *)
GetAnalysis ==
  /\ last' = [op |-> "getProjectAnalysis", arg |-> <<>>,
              res |-> getProjectAnalysis(analysisSlot)]
  /\ UNCHANGED <<fsExists, fsUnreadable, fsContent, now, analysisSlot, contextSlot, dfs,
                 history, lastPut, inflight>>

(* maxAgeMs: number = 5 * 60 * 1000; <<>> stands for an omitted argument *)
MaxAgeOf(maxAgeMs) == IF maxAgeMs = <<>> THEN DEFAULT_MAX_AGE_MS ELSE maxAgeMs[1]

(* isAnalysisStale(maxAgeMs) *)
IsStale(maxAgeMs) ==
  /\ last' = [op |-> "isAnalysisStale", arg |-> maxAgeMs,
              res |-> isAnalysisStale(analysisSlot, now, MaxAgeOf(maxAgeMs))]
  /\ UNCHANGED <<fsExists, fsUnreadable, fsContent, now, analysisSlot, contextSlot, dfs,
                 history, lastPut, inflight>>

(* shouldRefreshRelationships(maxAgeMs) *)
ShouldRefresh(maxAgeMs) ==
  /\ last' = [op |-> "shouldRefreshRelationships", arg |-> maxAgeMs,
              res |-> shouldRefreshRelationships(analysisSlot, now, MaxAgeOf(maxAgeMs))]
  /\ UNCHANGED <<fsExists, fsUnreadable, fsContent, now, analysisSlot, contextSlot, dfs,
                 history, lastPut, inflight>>

(***************************************************************************)
(* Specification SpecCache: the analysis cache while the clock runs.       *)
(* One file comes and goes; the clock moves by a millisecond or by the     *)
(* cache duration; an analysis may take a millisecond between its scan and *)
(* its cache write.                                                        *)
(***************************************************************************)
CacheFiles == {Str["api/a.ts"]}

CacheTexts == { <<Str["./a"]>> }

(* the delays between the scan and the cache write *)
ScanDelays == {0, 1}

(* the maxAgeMs arguments: omitted, or one millisecond *)
MaxAgeChoices == { <<>>, <<1>> }

InitCache ==
  /\ fsExists = {}
  /\ fsUnreadable = {}
  /\ fsContent = [p \in CacheFiles |-> <<>>]
  /\ now = 1
  /\ analysisSlot = NoItem
  /\ contextSlot = NoItem
  /\ last = NoCall
  /\ dfs = IdleDfs
  /\ history = <<>>
  /\ lastPut = NoItem
  /\ inflight = NoneInflight

(* an analysis made at an earlier moment or now, stored now *)
StoreSomeAnalysis ==
  \E t \in {1, now} : StoreAnalysis(analyzeProject(TheDisk, t))

NextCache ==
  \/ \E p \in CacheFiles, text \in CacheTexts : WriteFile(p, text)
  \/ \E p \in CacheFiles : DeleteFile(p)
  \/ \E d \in {1, CACHE_DURATION_MS} : Tick(d)
  \/ \E force \in BOOLEAN, d \in ScanDelays : Analyze(force, d)
  \/ \E p \in CacheFiles : PatchFile(p)
  \/ StoreSomeAnalysis
  \/ GetAnalysis
  \/ \E maxAgeMs \in MaxAgeChoices : IsStale(maxAgeMs)
  \/ \E maxAgeMs \in MaxAgeChoices : ShouldRefresh(maxAgeMs)

SpecCache == InitCache /\ [][NextCache]_vars

(* C8: getProjectAnalysis(), called after storeProjectAnalysis(a) with no  *)
(* write in between, answers an analysis whose stack, structure,           *)
(* relationships, rootPath and analyzedAt are those of a and which has no  *)
(* cachedAt field.                                                         *)
C8_RoundTrip ==
  (last.op = "getProjectAnalysis" /\ lastPut # NoItem) =>
     /\ last.res # NoItem
     /\ \A f \in {"stack", "structure", "relationships", "rootPath", "analyzedAt"} :
          last.res[1][f] = lastPut[1][f]
     /\ "cachedAt" \notin DOMAIN last.res[1]

(* an analysis made earlier than it was stored, with an edge, was read back *)
C8_Witness ==
  /\ last.op = "getProjectAnalysis"
  /\ lastPut # NoItem
  /\ last.res = lastPut
  /\ lastPut[1].relationships # <<>>
  /\ lastPut[1].analyzedAt < analysisSlot[1].cachedAt

(* C9: isAnalysisStale(maxAge) answers true exactly when nothing is cached *)
(* or now - analyzedAt > maxAge, analyzedAt being the time stamp of the    *)
(* cached analysis; the default maxAge is 5 minutes; the call leaves the   *)
(* cache as it is; shouldRefreshRelationships answers the same for the     *)
(* same cache content and clock.                                           *)
C9_StaleByAnalyzedAt ==
  [][ last'.op = "isAnalysisStale" =>
        /\ last'.res = ( \/ analysisSlot = NoItem
                         \/ now - analysisSlot[1].analyzedAt >
                              (IF last'.arg = <<>> THEN 5 * 60 * 1000 ELSE last'.arg[1]) )
        /\ last'.res = shouldRefreshRelationships(analysisSlot, now, MaxAgeOf(last'.arg))
        /\ analysisSlot' = analysisSlot
        /\ lastPut' = lastPut ]_vars

(* C10: execute({force}) with force false and a cache entry written at     *)
(* most 5 minutes ago answers the stored analysis with cached = true and   *)
(* writes nothing; in every other case it answers a fresh analysis of the  *)
(* tree with cached = false and the cache holds that analysis.             *)
C10_AnalyzeCacheAware ==
  [][ last'.op = "analyze" =>
        IF /\ ~last'.arg
           /\ analysisSlot # NoItem
           /\ now - analysisSlot[1].cachedAt <= 5 * 60 * 1000
        THEN /\ last'.res.cached = TRUE
             /\ getProjectAnalysis(analysisSlot) = Item(last'.res.data)
             /\ analysisSlot' = analysisSlot
             /\ lastPut' = lastPut
        ELSE /\ last'.res.cached = FALSE
             /\ last'.res.data = analyzeProject(TheDisk, now)
             /\ getProjectAnalysis(analysisSlot') = Item(last'.res.data)
             /\ lastPut' = Item(last'.res.data) ]_vars

(* a cache entry exactly 5 minutes old was answered although the tree has  *)
(* changed since it was analyzed                                           *)
C10_Witness ==
  /\ last.op = "analyze"
  /\ last.res.cached = TRUE
  /\ now - analysisSlot[1].cachedAt = CACHE_DURATION_MS
  /\ last.res.data.structure # mapProjectStructure(fsExists)

(***************************************************************************)
(* Storage failures.  Every messageStorage call of project-context sits    *)
(* in a try block whose catch block is empty or answers the result of a    *)
(* miss.  readFails / writeFails say whether the getItem / setItem of the  *)
(* call throws.                                                            *)
(***************************************************************************)
(* try { ... } catch { }: whether the exception leaves the function;       *)
(* Swallow_Rethrow is the function without the try block                   *)
Swallow_Rethrow(threw) == threw

Swallow(threw) == FALSE

(* try { getItem(key) } catch { the answer of a miss } *)
ReadItem(slot, readFails) == IF readFails THEN NoItem ELSE slot

(* try { setItem(key, item) } catch { }: the slot after the call *)
WriteItem(slot, item, writeFails) == IF writeFails THEN slot ELSE item

GetAnalysisFaulty(readFails) ==
  /\ last' = [op |-> "getProjectAnalysis!", arg |-> [readFails |-> readFails],
              res |-> [raised |-> Swallow(readFails),
                       value |-> getProjectAnalysis(ReadItem(analysisSlot, readFails))]]
  /\ UNCHANGED <<fsExists, fsUnreadable, fsContent, now, analysisSlot, contextSlot, dfs,
                 history, lastPut, inflight>>

StoreAnalysisFaulty(analysis, writeFails) ==
  /\ analysisSlot' = WriteItem(analysisSlot, storeProjectAnalysis(analysis, now), writeFails)
  /\ lastPut' = Item(analysis)
  /\ last' = [op |-> "storeProjectAnalysis!", arg |-> [writeFails |-> writeFails],
              res |-> [raised |-> Swallow(writeFails)]]
  /\ UNCHANGED <<fsExists, fsUnreadable, fsContent, now, contextSlot, dfs, history, inflight>>

GetStateFaulty(readFails) ==
  /\ last' = [op |-> "getContextState!", arg |-> [readFails |-> readFails],
              res |-> [raised |-> Swallow(readFails),
                       value |-> getContextState(ReadItem(contextSlot, readFails), now)]]
  /\ UNCHANGED <<fsExists, fsUnreadable, fsContent, now, analysisSlot, contextSlot, dfs,
                 history, lastPut, inflight>>

UpdateStateFaulty(updates, readFails, writeFails) ==
  LET updated == updateContextState(ReadItem(contextSlot, readFails), updates, now)
  IN /\ contextSlot' = WriteItem(contextSlot, updated, writeFails)
     /\ last' = [op |-> "updateContextState!",
                 arg |-> [readFails |-> readFails, writeFails |-> writeFails],
                 res |-> [raised |-> Swallow(readFails) \/ Swallow(writeFails),
                          value |-> updated[1]]]
     /\ UNCHANGED <<fsExists, fsUnreadable, fsContent, now, analysisSlot, dfs, history,
                    lastPut, inflight>>

PatchFileFaulty(filePath, readFails, writeFails) ==
  LET patched == PatchedAnalysis(ReadItem(analysisSlot, readFails), filePath, TheDisk, now)
  IN /\ analysisSlot' =
          IF patched = NoItem THEN analysisSlot
          ELSE WriteItem(analysisSlot, storeProjectAnalysis(patched[1], now), writeFails)
     /\ lastPut' = IF patched = NoItem THEN lastPut ELSE patched
     /\ last' = [op |-> "updateFileRelationships!",
                 arg |-> [readFails |-> readFails, writeFails |-> writeFails],
                 res |-> [raised |-> Swallow(readFails) \/ Swallow(writeFails)]]
     /\ UNCHANGED <<fsExists, fsUnreadable, fsContent, now, contextSlot, dfs, history, inflight>>

RefreshAllFaulty(readFails, writeFails) ==
  LET refreshed == RefreshedAnalysis(ReadItem(analysisSlot, readFails), TheDisk, now)
  IN /\ analysisSlot' =
          IF refreshed = NoItem THEN analysisSlot
          ELSE WriteItem(analysisSlot, storeProjectAnalysis(refreshed[1], now), writeFails)
     /\ lastPut' = IF refreshed = NoItem THEN lastPut ELSE refreshed
     /\ last' = [op |-> "refreshAllRelationships!",
                 arg |-> [readFails |-> readFails, writeFails |-> writeFails],
                 res |-> [raised |-> Swallow(readFails) \/ Swallow(writeFails)]]
     /\ UNCHANGED <<fsExists, fsUnreadable, fsContent, now, contextSlot, dfs, history, inflight>>

(***************************************************************************)
(* Specification SpecFaults: the cache operations while any storage call   *)
(* may fail                                                                *)
(***************************************************************************)
(* the updates handed to updateContextState *)
StateUpdates ==
  { [recentFiles |-> <<Str["api/a.ts"]>>],
    [activeLayer |-> "backend"],
    [currentFocus |-> << <<Str["api/a.ts"]>> >>] }

NextFaults ==
  \/ \E p \in CacheFiles, text \in CacheTexts : WriteFile(p, text)
  \/ \E p \in CacheFiles : DeleteFile(p)
  \/ \E readFails \in BOOLEAN : GetAnalysisFaulty(readFails)
  \/ \E writeFails \in BOOLEAN : StoreAnalysisFaulty(analyzeProject(TheDisk, now), writeFails)
  \/ \E readFails \in BOOLEAN : GetStateFaulty(readFails)
  \/ \E updates \in StateUpdates, readFails, writeFails \in BOOLEAN :
       UpdateStateFaulty(updates, readFails, writeFails)
  \/ \E p \in CacheFiles, readFails, writeFails \in BOOLEAN :
       PatchFileFaulty(p, readFails, writeFails)
  \/ \E readFails, writeFails \in BOOLEAN : RefreshAllFaulty(readFails, writeFails)

SpecFaults == InitCache /\ [][NextFaults]_vars

HasReverseImport_AnyType(rel, relationships) ==
  \E i \in 1..Len(relationships) :
    relationships[i].from = rel.to /\ relationships[i].to = rel.from

HasReverseImport(rel, relationships) ==
  \E i \in 1..Len(relationships) :
    /\ relationships[i].from = rel.to
    /\ relationships[i].to = rel.from
    /\ relationships[i].type = "import"

(* the body of "for (const rel of projectAnalysis.relationships)": the     *)
(* findings one relationship adds to broken                                *)
BrokenOf(rel, relationships, allFiles, disk) ==
  LET Finding(reason) == [from |-> rel.from, to |-> rel.to, type |-> rel.type, reason |-> reason]
      candidates ==
        << rel.to \o <<".">> \o Str["ts"],
           rel.to \o <<".">> \o Str["tsx"],
           rel.to \o <<".">> \o Str["js"],
           rel.to \o <<".">> \o Str["jsx"],
           rel.to \o <<"/">> \o Str["index"] \o <<".">> \o Str["ts"],
           rel.to \o <<"/">> \o Str["index"] \o <<".">> \o Str["tsx"],
           rel.to \o <<"/">> \o Str["index"] \o <<".">> \o Str["js"],
           rel.to \o <<"/">> \o Str["index"] \o <<".">> \o Str["jsx"] >>
      found == FindFirst(candidates, LAMBDA p : p \in disk.exists /\ p \in allFiles)
      notFound ==
        IF rel.type = "import" /\ rel.to \notin disk.exists /\ found = <<>>
        THEN << Finding("import_not_found") >>
        ELSE <<>>
      circular ==
        IF rel.type = "import" /\ HasReverseImport(rel, relationships)
        THEN << Finding("circular_dependency") >>
        ELSE <<>>
  IN IF rel.from \notin disk.exists
     THEN << Finding("file_missing") >>
     ELSE notFound \o circular

(* validateRelationships(analysis): analysis is <<>> when the argument is  *)
(* omitted or null                                                         *)
validateRelationships(analysis, slot, disk) ==
  LET projectAnalysis == IF analysis # NoItem THEN analysis ELSE getProjectAnalysis(slot)
  IN IF projectAnalysis = NoItem THEN <<>>
     ELSE LET relationships == projectAnalysis[1].relationships
              allFiles == AllFiles(projectAnalysis[1].structure)
          IN FlatMap(relationships,
                     LAMBDA rel : BrokenOf(rel, relationships, allFiles, disk))

Validate ==
  /\ last' = [op |-> "validateRelationships", arg |-> <<>>,
              res |-> validateRelationships(NoItem, analysisSlot, TheDisk)]
  /\ UNCHANGED <<fsExists, fsUnreadable, fsContent, now, analysisSlot, contextSlot, dfs,
                 history, lastPut, inflight>>

(***************************************************************************)
(* Specification SpecValidate: full analyses and validations of a tree of  *)
(* root-level files whose imports resolve, resolve to one of two           *)
(* candidates, form a cycle, or do not resolve                             *)
(***************************************************************************)
ValidateFiles == {Str["a.ts"], Str["b.ts"], Str["b.js"]}

ValidateTexts ==
  [p \in ValidateFiles |->
     IF p = Str["a.ts"] THEN { <<Str["./b"]>>, <<Str["./missing"]>>, <<Str["./b.js"]>> }
     ELSE IF p = Str["b.ts"] THEN { <<>>, <<Str["./a"]>> }
     ELSE { <<>> }]

InitValidate ==
  /\ fsExists = {}
  /\ fsUnreadable = {}
  /\ fsContent = [p \in ValidateFiles |-> <<>>]
  /\ now = 1
  /\ analysisSlot = NoItem
  /\ contextSlot = NoItem
  /\ last = NoCall
  /\ dfs = IdleDfs
  /\ history = <<>>
  /\ lastPut = NoItem
  /\ inflight = NoneInflight

NextValidate ==
  \/ \E p \in ValidateFiles : \E text \in ValidateTexts[p] : WriteFile(p, text)
  \/ \E p \in ValidateFiles : DeleteFile(p)
  \/ \E force \in BOOLEAN : Analyze(force, 0)
  \/ Validate

SpecValidate == InitValidate /\ [][NextValidate]_vars

(* the analysis in the cache is the full analysis of the tree as it is *)
AnalysisIsCurrent ==
  /\ analysisSlot # NoItem
  /\ getProjectAnalysis(analysisSlot) = Item(analyzeProject(TheDisk, analysisSlot[1].analyzedAt))

(* the order in which the endings of a relative import are tried *)
CandidateEndings ==
  << <<>>, Str[".ts"], Str[".tsx"], Str[".js"], Str[".jsx"], Str["/index.ts"],
     Str["/index.tsx"], Str["/index.js"], Str["/index.jsx"] >>

(* the import edges a root-level file should yield for its text: for each  *)
(* specifier "./x", one edge to the first x + ending among the known files *)
RECURSIVE ExpectedEdges(_, _, _)
ExpectedEdges(file, specs, known) ==
  IF specs = <<>> THEN <<>>
  ELSE LET base == SubSeq(Head(specs), 3, Len(Head(specs)))
           hits == { i \in 1..Len(CandidateEndings) : (base \o CandidateEndings[i]) \in known }
           first == CHOOSE i \in hits : \A j \in hits : i <= j
       IN (IF hits = {} THEN <<>>
           ELSE << [from |-> file, to |-> base \o CandidateEndings[first], type |-> "import"] >>)
          \o ExpectedEdges(file, Tail(specs), known)

(* C12: a full analysis records, for each relative import of a scanned     *)
(* file, exactly one import edge to the first candidate (literal path,     *)
(* .ts, .tsx, .js, .jsx, /index.ts, .tsx, .js, .jsx) among the files of    *)
(* the structure and no edge when there is none; for a.ts importing "./b"  *)
(* beside b.ts the graph is the one edge a.ts -> b.ts and validation       *)
(* reports nothing.                                                        *)
C12_FirstCandidate ==
  /\ (last.op = "analyze" /\ ~last.res.cached) =>
       \A f \in fsExists :
         SelectSeq(last.res.data.relationships, LAMBDA r : r.from = f)
           = IF IsTsJs(f)
             THEN ExpectedEdges(f, fsContent[f], AllFiles(last.res.data.structure))
             ELSE <<>>
  /\ ( /\ last.op = "validateRelationships"
       /\ AnalysisIsCurrent
       /\ fsExists = {Str["a.ts"], Str["b.ts"]}
       /\ fsContent[Str["a.ts"]] = <<Str["./b"]>>
       /\ fsContent[Str["b.ts"]] = <<>> ) =>
       /\ analysisSlot[1].relationships
            = << [from |-> Str["a.ts"], to |-> Str["b.ts"], type |-> "import"] >>
       /\ last.res = <<>>

(* a.ts imports "./b" beside b.ts and b.js: the one edge goes to b.ts, and *)
(* validation of that analysis reports nothing                             *)
C12_Witness ==
  /\ last.op = "validateRelationships"
  /\ last.res = <<>>
  /\ AnalysisIsCurrent
  /\ fsExists = {Str["a.ts"], Str["b.ts"], Str["b.js"]}
  /\ fsContent[Str["a.ts"]] = <<Str["./b"]>>
  /\ analysisSlot[1].relationships
       = << [from |-> Str["a.ts"], to |-> Str["b.ts"], type |-> "import"] >>

(* C13: for a tree holding only a.ts, whose text imports "./missing", a    *)
(* full analysis followed by a validation yields exactly one finding: from *)
(* a.ts, reason import_not_found.                                          *)
C13_MissingReported ==
  ( /\ last.op = "validateRelationships"
    /\ AnalysisIsCurrent
    /\ fsExists = {Str["a.ts"]}
    /\ fsContent[Str["a.ts"]] = <<Str["./missing"]>> ) =>
    /\ Len(last.res) = 1
    /\ last.res[1].from = Str["a.ts"]
    /\ last.res[1].reason = "import_not_found"

(* C14: when the cached analysis holds the import edges a.ts -> b.ts and   *)
(* b.ts -> a.ts and both files exist, a validation reports exactly one     *)
(* circular_dependency finding for the pair.                               *)
C14_OneFindingPerCycle ==
  ( /\ last.op = "validateRelationships"
    /\ analysisSlot # NoItem
    /\ {Str["a.ts"], Str["b.ts"]} \subseteq fsExists
    /\ \E i, j \in 1..Len(analysisSlot[1].relationships) :
         /\ analysisSlot[1].relationships[i]
              = [from |-> Str["a.ts"], to |-> Str["b.ts"], type |-> "import"]
         /\ analysisSlot[1].relationships[j]
              = [from |-> Str["b.ts"], to |-> Str["a.ts"], type |-> "import"] ) =>
    Cardinality({ i \in 1..Len(last.res) :
                    /\ last.res[i].reason = "circular_dependency"
                    /\ {last.res[i].from, last.res[i].to} = {Str["a.ts"], Str["b.ts"]} }) = 1

(***************************************************************************)
(* project-context: getFileContext, getContextFilesToLoad,                 *)
(* invalidateContextForFile                                                *)
(***************************************************************************)
(* getFileContext(files): the ProjectContext returned (<<>> for null) and  *)
(* the content of the context slot afterwards                              *)
getFileContext(aSlot, cSlot, files, disk, clock) ==
  LET analysis == getProjectAnalysis(aSlot) IN
  IF analysis = NoItem THEN [context |-> NoItem, slot |-> cSlot]
  ELSE
    LET state == getContextState(cSlot, clock)
        normalized == [i \in 1..Len(files) |-> normalizePath(files[i])]
        activeLayer ==
          IF Len(normalized) > 0 THEN detectLayer(normalized[1], analysis[1]) ELSE "null"
        relatedFiles == getRelatedFiles(aSlot, cSlot, <<normalized>>, 15, disk, clock)
    IN [context |->
          Item([analysis |-> analysis[1],
                state |-> [state EXCEPT !.currentFocus = <<normalized>>,
                                        !.activeLayer = activeLayer],
                relatedFiles |-> relatedFiles]),
        slot |-> updateContextState(cSlot, [currentFocus |-> <<normalized>>,
                                            activeLayer |-> activeLayer], clock)]

(* getContextFilesToLoad() after "const context = await                    *)
(* getFileContext([])": the files returned for that context (<<>> for      *)
(* null)                                                                   *)
getContextFilesToLoad(fileContext, disk) ==
  IF fileContext = NoItem THEN <<>>
  ELSE
    LET context == fileContext[1]
        activeLayer == context.state.activeLayer
        focus == IF context.state.currentFocus # <<>>
                 THEN context.state.currentFocus[1] ELSE <<>>
        configFiles ==
          SelectSeq(context.analysis.structure.config, LAMBDA f :
            IF activeLayer = "contract"
            THEN Includes(f, Str["hardhat"]) \/ Includes(f, Str["foundry"])
                   \/ Includes(f, Str["Anchor"])
            ELSE IF activeLayer \in {"backend", "frontend"}
                 THEN Includes(f, Str["tsconfig"]) \/ Includes(f, Str["package.json"])
                 ELSE FALSE)
        layerConfig ==
          IF activeLayer \in {"null", "undefined"} THEN <<>> ELSE Slice0(configFiles, 2)
        files == FoldLeft(focus \o Slice0(context.relatedFiles, 5) \o layerConfig, <<>>, SetAdd)
    IN SelectSeq(files, LAMBDA f : f \in disk.exists)

(* invalidateContextForFile(filePath): the content of the context slot     *)
(* afterwards                                                              *)
invalidateContextForFile(cSlot, filePath, clock) ==
  LET normalized == normalizePath(filePath)
      state == getContextState(cSlot, clock)
  IN IF state.currentFocus = <<>> THEN cSlot
     ELSE LET updated == SelectSeq(state.currentFocus[1], LAMBDA f : f # normalized)
          IN IF Len(updated) = Len(state.currentFocus[1]) THEN cSlot
             ELSE updateContextState(
                    cSlot, [currentFocus |-> IF Len(updated) > 0 THEN <<updated>> ELSE <<>>],
                    clock)

SetFocus(files) ==
  /\ contextSlot' = setCurrentFocus(contextSlot, files, now)
  /\ last' = [op |-> "setCurrentFocus", arg |-> files, res |-> <<>>]
  /\ UNCHANGED <<fsExists, fsUnreadable, fsContent, now, analysisSlot, dfs, history, lastPut,
                 inflight>>

FileContext(files) ==
  \E fc \in {getFileContext(analysisSlot, contextSlot, files, TheDisk, now)} :
    /\ contextSlot' = fc.slot
    /\ last' = [op |-> "getFileContext", arg |-> files, res |-> fc.context]
    /\ UNCHANGED <<fsExists, fsUnreadable, fsContent, now, analysisSlot, dfs, history,
                   lastPut, inflight>>

(* getContextFilesToLoad(): getFileContext([]), then the rest *)
FilesToLoad ==
  \E fc \in {getFileContext(analysisSlot, contextSlot, <<>>, TheDisk, now)} :
    /\ contextSlot' = fc.slot
    /\ last' = [op |-> "getContextFilesToLoad", arg |-> <<>>,
                res |-> getContextFilesToLoad(fc.context, TheDisk)]
    /\ UNCHANGED <<fsExists, fsUnreadable, fsContent, now, analysisSlot, dfs, history,
                   lastPut, inflight>>

Invalidate(filePath) ==
  /\ contextSlot' = invalidateContextForFile(contextSlot, filePath, now)
  /\ last' = [op |-> "invalidateContextForFile", arg |-> filePath, res |-> <<>>]
  /\ UNCHANGED <<fsExists, fsUnreadable, fsContent, now, analysisSlot, dfs, history, lastPut,
                 inflight>>

GetRelated(focusFiles, maxFiles) ==
  /\ last' = [op |-> "getRelatedFiles",
              arg |-> [focusFiles |-> focusFiles, maxFiles |-> maxFiles],
              res |-> getRelatedFiles(analysisSlot, contextSlot, focusFiles, maxFiles,
                                      TheDisk, now)]
  /\ UNCHANGED <<fsExists, fsUnreadable, fsContent, now, analysisSlot, contextSlot, dfs,
                 history, lastPut, inflight>>

(* getContextSummary(maxLength) *)
getContextSummary(aSlot, cSlot, maxLength, clock) ==
  LET analysis == getProjectAnalysis(aSlot)
      state == getContextState(cSlot, clock)
  IN IF analysis = NoItem THEN <<>>
     ELSE
       LET stack == analysis[1].stack
           structure == analysis[1].structure
           Named(label, value) == IF value = "null" THEN <<>> ELSE << label \o Chars(value) >>
           Counted(files, label) ==
             IF Len(files) > 0 THEN << Decimal(Len(files)) \o label >> ELSE <<>>
           stackParts == Named(Str["Contracts: "], stack.contractFramework)
                           \o Named(Str["Backend: "], stack.backendFramework)
                           \o Named(Str["Frontend: "], stack.frontendFramework)
           focus == IF state.currentFocus # <<>> THEN state.currentFocus[1] ELSE <<>>
           focusFiles == [i \in 1..Len(Slice0(focus, 3)) |-> relative(Str["/proj"], focus[i])]
           structureParts == Counted(structure.contracts, Str[" contracts"])
                               \o Counted(structure.backend, Str[" backend files"])
                               \o Counted(structure.frontend, Str[" frontend files"])
           parts ==
             (IF stackParts # <<>>
              THEN << Str["Stack: "] \o JoinOn(stackParts, Str[", "]) >> ELSE <<>>)
             \o (IF state.activeLayer \notin {"null", "undefined"}
                 THEN << Str["Currently working on: "] \o Chars(state.activeLayer)
                           \o Str[" layer"] >>
                 ELSE <<>>)
             \o (IF Len(focus) > 0
                 THEN << Str["Focus files: "] \o JoinOn(focusFiles, Str[", "]) >> ELSE <<>>)
             \o (IF structureParts # <<>>
                 THEN << Str["Structure: "] \o JoinOn(structureParts, Str[", "]) >> ELSE <<>>)
           summary == JoinOn(parts, Str[". "])
       IN IF Len(summary) > maxLength
          THEN Slice0(summary, maxLength) \o Str["..."]
          ELSE summary

Summary(maxLength) ==
  /\ last' = [op |-> "getContextSummary", arg |-> maxLength,
              res |-> getContextSummary(analysisSlot, contextSlot, maxLength, now)]
  /\ UNCHANGED <<fsExists, fsUnreadable, fsContent, now, analysisSlot, contextSlot, dfs,
                 history, lastPut, inflight>>

(***************************************************************************)
(* Specification SpecContext: the working context over a tree of three     *)
(* files of one directory, api/a.ts importing "./b", before any analysis   *)
(* or with the analysis of that tree cached; api/b.ts is deleted and       *)
(* written again afterwards                                                *)
(***************************************************************************)
ContextFiles == {Str["api/a.ts"], Str["api/b.ts"], Str["api/u.test.ts"]}

EditedFiles == {Str["api/b.ts"]}

(* the files arguments of setCurrentFocus and getFileContext *)
FocusChoices == { <<>>, <<Str["api/a.ts"]>>, <<Str["api/b.ts"], Absolute(Str["api/a.ts"])>> }

(* the maxFiles arguments of getRelatedFiles: the default 10, and 1 *)
RelatedLimits == {1, 10}

(* the maxLength arguments of getContextSummary: 300 as in the system      *)
(* prompt, and two lengths shorter than any summary                        *)
SummaryLimits == {0, 10, 300}

InitContext ==
  /\ fsExists = ContextFiles
  /\ fsUnreadable = {}
  /\ fsContent = [p \in ContextFiles |-> IF p = Str["api/a.ts"] THEN <<Str["./b"]>> ELSE <<>>]
  /\ now = 1
  /\ analysisSlot \in {NoItem, storeProjectAnalysis(analyzeProject(TheDisk, 1), 1)}
  /\ contextSlot = NoItem
  /\ last = NoCall
  /\ dfs = IdleDfs
  /\ history = <<>>
  /\ lastPut = NoItem
  /\ inflight = NoneInflight

NextContext ==
  \/ \E p \in EditedFiles : WriteFile(p, <<>>)
  \/ \E p \in EditedFiles : DeleteFile(p)
  \/ \E files \in FocusChoices \ {<<>>} : SetFocus(files)
  \/ \E files \in FocusChoices : FileContext(files)
  \/ FilesToLoad
  \/ \E p \in {Str["api/a.ts"]} : Invalidate(p)
  \/ \E focusFiles \in {NoItem, Item(<<>>), Item(<<Str["api/a.ts"]>>)},
        maxFiles \in RelatedLimits : GetRelated(focusFiles, maxFiles)
  \/ \E maxLength \in SummaryLimits : Summary(maxLength)

SpecContext == InitContext /\ [][NextContext]_vars

(* C15: getContextFilesToLoad returns the current focus files, at most 5   *)
(* related files and at most 2 config files of the active layer, those     *)
(* that exist; so with an analysis cached and a focus set by               *)
(* setCurrentFocus, the result holds every focus file that is on disk.     *)
C15_FocusLoaded ==
  [][ ( /\ last'.op = "getContextFilesToLoad"
        /\ analysisSlot # NoItem
        /\ contextSlot # NoItem
        /\ contextSlot[1].currentFocus # <<>> ) =>
        \A f \in SeqToSet(contextSlot[1].currentFocus[1]) \cap fsExists :
          f \in SeqToSet(last'.res) ]_vars

(* the focus a getRelatedFiles call works on: its argument, else the       *)
(* stored focus, else the five most recent files                           *)
EffectiveFocus(focusFiles) ==
  LET state == getContextState(contextSlot, now)
      files == IF focusFiles # <<>> THEN focusFiles[1]
               ELSE IF state.currentFocus # <<>> THEN state.currentFocus[1]
               ELSE Slice0(state.recentFiles, 5)
  IN { normalizePath(files[i]) : i \in 1..Len(files) }

(* the other endpoints of the cached edges touching g *)
EdgeNeighbours(g) ==
  { r.to : r \in { x \in SeqToSet(analysisSlot[1].relationships) : x.from = g } }
    \cup { r.from : r \in { x \in SeqToSet(analysisSlot[1].relationships) : x.to = g } }

(* the first three files of contracts, backend, frontend, tests that lie   *)
(* in the directory of g                                                   *)
FirstSiblings(g) ==
  LET structure == analysisSlot[1].structure
      listed == structure.contracts \o structure.backend \o structure.frontend
                  \o structure.tests
  IN SeqToSet(Slice0(SelectSeq(listed, LAMBDA f : getDirectory(f) = getDirectory(g) /\ f # g), 3))

C17_SummaryBounded ==
  last.op = "getContextSummary" =>
    /\ Len(last.res) <= last.arg
    /\ analysisSlot = NoItem => last.res = <<>>

(***************************************************************************)
(* The cache writers step by step.  updateFileRelationships and            *)
(* refreshAllRelationships await getProjectAnalysis, work on the analysis  *)
(* it gave them, and await storeProjectAnalysis; other calls run between   *)
(* their awaits.                                                           *)
(***************************************************************************)
(* the analysis a call works on after its await: the one it read (own),    *)
(* not the one in the cache by then (current)                              *)
SnapshotOf_Current(own, current) == current

SnapshotOf(own, current) == own

(* const analysis = await getProjectAnalysis(); if (!analysis) return *)
PatchRead(filePath) ==
  /\ inflight.patch.pc = "idle"
  /\ IF getProjectAnalysis(analysisSlot) = NoItem
     THEN /\ last' = [op |-> "updateFileRelationships", arg |-> filePath, res |-> <<>>]
          /\ UNCHANGED inflight
     ELSE /\ inflight' = [inflight EXCEPT !.patch = [pc |-> "read", filePath |-> filePath,
                                                     analysis |-> analysisSlot]]
          /\ UNCHANGED last
  /\ UNCHANGED <<fsExists, fsUnreadable, fsContent, now, analysisSlot, contextSlot, dfs,
                 history, lastPut>>

(* the rest of updateFileRelationships: filter, existsSync, readFileSync,  *)
(* extractImportsFromFile, storeProjectAnalysis                            *)
PatchWrite ==
  /\ inflight.patch.pc = "read"
  /\ LET patched == PatchedAnalysis(SnapshotOf(inflight.patch.analysis, analysisSlot),
                                    inflight.patch.filePath, TheDisk, now)
     IN /\ analysisSlot' = IF patched = NoItem THEN analysisSlot
                           ELSE storeProjectAnalysis(patched[1], now)
        /\ lastPut' = IF patched = NoItem THEN lastPut ELSE patched
  /\ last' = [op |-> "updateFileRelationships/write",
              arg |-> [filePath |-> inflight.patch.filePath,
                       read |-> inflight.patch.analysis, overwritten |-> analysisSlot],
              res |-> <<>>]
  /\ inflight' = [inflight EXCEPT !.patch = NoneInflight.patch]
  /\ UNCHANGED <<fsExists, fsUnreadable, fsContent, now, contextSlot, dfs, history>>

RefreshRead ==
  /\ inflight.refresh.pc = "idle"
  /\ IF getProjectAnalysis(analysisSlot) = NoItem
     THEN /\ last' = [op |-> "refreshAllRelationships", arg |-> <<>>, res |-> <<>>]
          /\ UNCHANGED inflight
     ELSE /\ inflight' = [inflight EXCEPT !.refresh = [pc |-> "read", analysis |-> analysisSlot,
                                                       newRelationships |-> <<>>]]
          /\ UNCHANGED last
  /\ UNCHANGED <<fsExists, fsUnreadable, fsContent, now, analysisSlot, contextSlot, dfs,
                 history, lastPut>>

(* const newRelationships = await buildDependencyGraph(analysis.structure) *)
RefreshCompute ==
  /\ inflight.refresh.pc = "read"
  /\ LET analysis == getProjectAnalysis(SnapshotOf(inflight.refresh.analysis, analysisSlot))
     IN inflight' = [inflight EXCEPT
                       !.refresh.pc = "computed",
                       !.refresh.newRelationships =
                          buildDependencyGraph(analysis[1].structure, TheDisk)]
  /\ UNCHANGED <<fsExists, fsUnreadable, fsContent, now, analysisSlot, contextSlot, last, dfs,
                 history, lastPut>>

(* await storeProjectAnalysis({ ...analysis, relationships, analyzedAt }) *)
RefreshWrite ==
  /\ inflight.refresh.pc = "computed"
  /\ LET analysis == getProjectAnalysis(SnapshotOf(inflight.refresh.analysis, analysisSlot))
         refreshed == [analysis[1] EXCEPT
                         !.relationships = inflight.refresh.newRelationships,
                         !.analyzedAt = now]
     IN /\ analysisSlot' = storeProjectAnalysis(refreshed, now)
        /\ lastPut' = Item(refreshed)
  /\ last' = [op |-> "refreshAllRelationships/write",
              arg |-> [read |-> inflight.refresh.analysis, overwritten |-> analysisSlot],
              res |-> <<>>]
  /\ inflight' = [inflight EXCEPT !.refresh = NoneInflight.refresh]
  /\ UNCHANGED <<fsExists, fsUnreadable, fsContent, now, contextSlot, dfs, history>>

(***************************************************************************)
(* Specification SpecRace: a patch, a relationship refresh and full        *)
(* analyses racing, while api/a.ts is written and deleted beside api/b.ts  *)
(***************************************************************************)
RaceTexts == { <<>>, <<Str["./b"]>> }

InitRace ==
  /\ fsExists = {Str["api/b.ts"]}
  /\ fsUnreadable = {}
  /\ fsContent = [p \in GraphFiles |-> <<>>]
  /\ now = 1
  /\ analysisSlot = NoItem
  /\ contextSlot = NoItem
  /\ last = NoCall
  /\ dfs = IdleDfs
  /\ history = <<>>
  /\ lastPut = NoItem
  /\ inflight = NoneInflight

NextRace ==
  \/ \E text \in RaceTexts : WriteFile(Str["api/a.ts"], text)
  \/ DeleteFile(Str["api/a.ts"])
  \/ Analyze(TRUE, 0)
  \/ \E p \in GraphFiles : PatchRead(p)
  \/ PatchWrite
  \/ RefreshRead
  \/ RefreshCompute
  \/ RefreshWrite

SpecRace == InitRace /\ [][NextRace]_vars

(* C18: however a full rebuild (refreshAllRelationships, the analyze tool) *)
(* and a per-file patch interleave, each write puts into the cache exactly *)
(* the value its call computed from the analysis that call had read, the   *)
(* cache then holds the value written last and nothing of the write it     *)
(* replaced.  No step of a call waits for another call: the only guard of  *)
(* a step is the position of its own call.                                 *)
C18_LastWriterWins ==
  [][ /\ (inflight.patch.pc = "read" /\ inflight'.patch.pc = "idle") =>
           LET patched == PatchedAnalysis(inflight.patch.analysis, inflight.patch.filePath,
                                          TheDisk, now)
           IN IF patched = NoItem THEN analysisSlot' = analysisSlot
              ELSE getProjectAnalysis(analysisSlot') = patched
      /\ (inflight.refresh.pc = "computed" /\ inflight'.refresh.pc = "idle") =>
           getProjectAnalysis(analysisSlot')
             = Item([WithoutCachedAt(inflight.refresh.analysis[1]) EXCEPT
                       !.relationships = inflight.refresh.newRelationships,
                       !.analyzedAt = now])
      /\ (inflight.refresh.pc = "read" /\ inflight'.refresh.pc = "computed") =>
           inflight'.refresh.newRelationships
             = buildDependencyGraph(inflight.refresh.analysis[1].structure, TheDisk)
      /\ (last'.op = "analyze" /\ inflight' = inflight) =>
           getProjectAnalysis(analysisSlot') = Item(analyzeProject(TheDisk, now))
      /\ analysisSlot' # analysisSlot => getProjectAnalysis(analysisSlot') = lastPut' ]_vars

(* a patch wrote after another writer had replaced the analysis it read,   *)
(* and the cache holds neither what it replaced nor a patch of that        *)
C18_Witness ==
  /\ last.op = "updateFileRelationships/write"
  /\ last.arg.read # last.arg.overwritten
  /\ getProjectAnalysis(analysisSlot) = lastPut
  /\ getProjectAnalysis(analysisSlot)
       # PatchedAnalysis(last.arg.overwritten, last.arg.filePath, TheDisk, now)
  /\ analysisSlot # last.arg.overwritten

(* C19: updateFileRelationships(p) does not scan the project structure     *)
(* again: stack, structure (all seven categories) and rootPath of the      *)
(* cached analysis stay as they were, also when p is new or deleted; and   *)
(* with no analysis cached the call writes nothing.                        *)
C19_NoStructuralRescan ==
  [][ last'.op = "updateFileRelationships" =>
        IF analysisSlot = NoItem
        THEN analysisSlot' = NoItem /\ lastPut' = lastPut
        ELSE /\ analysisSlot' # NoItem
             /\ analysisSlot'[1].stack = analysisSlot[1].stack
             /\ analysisSlot'[1].structure = analysisSlot[1].structure
             /\ analysisSlot'[1].rootPath = analysisSlot[1].rootPath ]_vars

(* a file written after the analysis was patched: it is on disk, has its   *)
(* edges in the cache, and is in no category of the cached structure       *)
C19_Witness ==
  /\ last.op = "updateFileRelationships"
  /\ analysisSlot # NoItem
  /\ last.arg \in fsExists
  /\ last.arg \notin AllFiles(analysisSlot[1].structure)
  /\ \E i \in 1..Len(analysisSlot[1].relationships) :
       analysisSlot[1].relationships[i].from = last.arg
  /\ analysisSlot[1].structure # mapProjectStructure(fsExists)

(***************************************************************************)
(* The context writers step by step.  addRecentFile awaits                 *)
(* getContextState, computes the new list from the state it was given,     *)
(* and updateContextState merges that list into the state stored by then;  *)
(* setCurrentFocus stores the focus and then calls addRecentFile for each  *)
(* file in turn.  Two callers run such calls at the same time.             *)
(***************************************************************************)
(* how many addRecentFile and setCurrentFocus calls a behaviour of         *)
(* SpecInterleave makes                                                    *)
MaxCalls == 2

(* addRecentFile(filePath) is called *)
AddRecentCall(c, filePath) ==
  /\ inflight.adds[c].pc = "idle"
  /\ inflight.calls < MaxCalls
  /\ inflight' = [inflight EXCEPT !.adds[c] = [pc |-> "called", pending |-> <<filePath>>,
                                               state |-> <<>>],
                                  !.calls = @ + 1]
  /\ history' = Append(history, filePath)
  /\ UNCHANGED <<fsExists, fsUnreadable, fsContent, now, analysisSlot, contextSlot, last, dfs,
                 lastPut>>

(* setCurrentFocus(files) up to its first addRecentFile call *)
SetFocusCall(c, files) ==
  LET normalized == [i \in 1..Len(files) |-> normalizePath(files[i])]
  IN /\ inflight.adds[c].pc = "idle"
     /\ inflight.calls < MaxCalls
     /\ contextSlot' = updateContextState(contextSlot, [currentFocus |-> <<normalized>>], now)
     /\ inflight' = [inflight EXCEPT
                       !.adds[c] = [pc |-> IF normalized = <<>> THEN "idle" ELSE "called",
                                    pending |-> normalized, state |-> <<>>],
                       !.calls = @ + 1]
     /\ last' = [op |-> "setCurrentFocus", arg |-> files, res |-> <<>>]
     /\ history' = history \o normalized
     /\ UNCHANGED <<fsExists, fsUnreadable, fsContent, now, analysisSlot, dfs, lastPut>>

(* const state = await getContextState() *)
AddRecentRead(c) ==
  /\ inflight.adds[c].pc = "called"
  /\ inflight' = [inflight EXCEPT !.adds[c].pc = "read",
                                  !.adds[c].state = <<getContextState(contextSlot, now)>>]
  /\ UNCHANGED <<fsExists, fsUnreadable, fsContent, now, analysisSlot, contextSlot, last, dfs,
                 history, lastPut>>

(* the rest of addRecentFile: filter, unshift, slice, updateContextState *)
AddRecentWrite(c) ==
  /\ inflight.adds[c].pc = "read"
  /\ LET state == inflight.adds[c].state[1]
         normalized == normalizePath(Head(inflight.adds[c].pending))
         recentFiles == <<normalized>> \o RemoveExisting(state.recentFiles, normalized)
         limited == LimitRecent(recentFiles)
         rest == Tail(inflight.adds[c].pending)
     IN /\ contextSlot' = updateContextState(contextSlot, [recentFiles |-> limited], now)
        /\ last' = [op |-> "addRecentFile/write",
                    arg |-> [filePath |-> normalized,
                             stale |-> state # getContextState(contextSlot, now)],
                    res |-> <<>>]
        /\ inflight' = [inflight EXCEPT
                          !.adds[c] = [pc |-> IF rest = <<>> THEN "idle" ELSE "called",
                                       pending |-> rest, state |-> <<>>]]
  /\ UNCHANGED <<fsExists, fsUnreadable, fsContent, now, analysisSlot, dfs, history, lastPut>>

(***************************************************************************)
(* Specification SpecInterleave: two callers adding recent files and       *)
(* setting the focus, with getFileContext and invalidateContextForFile     *)
(* calls in between, from the state twenty addRecentFile calls leave and   *)
(* with the analysis of an empty tree cached                               *)
(***************************************************************************)
InitInterleave ==
  /\ fsExists = {}
  /\ fsUnreadable = {}
  /\ fsContent = <<>>
  /\ now = 1
  /\ analysisSlot = storeProjectAnalysis(analyzeProject(Disk({}, {}, <<>>), 1), 1)
  /\ contextSlot =
       Item([DefaultContextState(1) EXCEPT
               !.recentFiles = [i \in 1..MaxRecentFiles |-> RecentFile(MaxRecentFiles + 1 - i)]])
  /\ last = NoCall
  /\ dfs = IdleDfs
  /\ history = <<>>
  /\ lastPut = NoItem
  /\ inflight = NoneInflight

NextInterleave ==
  \/ \E c \in Callers, filePath \in {RecentFile(1), RecentFile(MaxRecentFiles + 1)} :
       AddRecentCall(c, filePath)
  \/ \E c \in Callers :
       SetFocusCall(c, <<RecentFile(MaxRecentFiles + 2), Absolute(RecentFile(MaxRecentFiles))>>)
  \/ \E c \in Callers : AddRecentRead(c)
  \/ \E c \in Callers : AddRecentWrite(c)
  \/ \E files \in {<<>>, <<RecentFile(MaxRecentFiles)>>} : FileContext(files)
  \/ Invalidate(RecentFile(MaxRecentFiles + 2))

SpecInterleave == InitInterleave /\ [][NextInterleave]_vars

(* C20: in every context state reached by AddRecent, SetFocus,             *)
(* getFileContext and invalidateContextForFile calls, however they         *)
(* interleave, the stored recentFiles has at most 20 entries and holds no  *)
(* path twice.                                                             *)
C20_RecentBounded ==
  /\ Len(StoredRecentFiles) <= 20
  /\ NoDuplicates(StoredRecentFiles)

(* an addRecentFile call wrote the list it computed from a state that      *)
(* another call had replaced meanwhile; the list is full and a focus set   *)
C20_Witness ==
  /\ last.op = "addRecentFile/write"
  /\ last.arg.stale
  /\ Len(StoredRecentFiles) = 20
  /\ StoredRecentFiles[1] = RecentFile(21)
  /\ contextSlot[1].currentFocus # <<>>

(***************************************************************************)
(* The write-file and edit-file tools.  After the file is written, generate *)
(* awaits updateFileRelationships(relativePath), addRecentFile(relativePath)*)
(* and setCurrentFocus([relativePath]), each with .catch(() => {}), and    *)
(* then yields its result.  The calls of other requests run between the    *)
(* awaits.                                                                 *)
(***************************************************************************)
(* the tracker and context calls in the order generate awaits them; with   *)
(* the focus set first the order is ToolSequence_FocusFirst                *)
ToolSequence_FocusFirst == <<"setCurrentFocus", "updateFileRelationships", "addRecentFile">>

ToolSequence == <<"updateFileRelationships", "addRecentFile", "setCurrentFocus">>

(* addRecentFile(filePath) when the storage calls may throw *)
addRecentFileFaulty(slot, filePath, clock, readFails, writeFails) ==
  WriteItem(slot, addRecentFile(ReadItem(slot, readFails), filePath, clock), writeFails)

(* setCurrentFocus(files) when the storage calls may throw *)
setCurrentFocusFaulty(slot, files, clock, readFails, writeFails) ==
  LET normalized == [i \in 1..Len(files) |-> normalizePath(files[i])]
      RECURSIVE addAll(_, _)
      addAll(s, i) ==
        IF i > Len(normalized) THEN s
        ELSE addAll(addRecentFileFaulty(s, normalized[i], clock, readFails, writeFails), i + 1)
      focused == updateContextState(ReadItem(slot, readFails),
                                    [currentFocus |-> <<normalized>>], clock)
  IN addAll(WriteItem(slot, focused, writeFails), 1)

(* how many tool calls that write their file a behaviour of SpecTool makes *)
MaxWrites == 2

(* generate up to the end of "await writeFile(...)"; written says whether  *)
(* applyEdit and writeFile returned, otherwise the catch block of generate *)
(* reports the error                                                       *)
ToolWrite(name, filePath, text, written) ==
  LET relativePath == relative(Str["/proj"], filePath)
  IN /\ inflight.tool.pc = "idle"
     /\ inflight.calls < MaxWrites
     /\ IF written
        THEN /\ fsExists' = fsExists \cup {relativePath}
             /\ fsUnreadable' = fsUnreadable \ {relativePath}
             /\ fsContent' = [fsContent EXCEPT ![relativePath] = text]
             /\ inflight' = [inflight EXCEPT
                               !.tool = [pc |-> "written", name |-> name,
                                         relativePath |-> relativePath, done |-> <<>>,
                                         failed |-> {}, alone |-> TRUE,
                                         seen |-> <<analysisSlot, contextSlot>>],
                               !.calls = @ + 1]
             /\ last' = [op |-> "tool/write", arg |-> [name |-> name, filePath |-> filePath],
                         res |-> <<>>]
        ELSE /\ last' = [op |-> "tool", arg |-> [name |-> name, filePath |-> filePath],
                         res |-> [ok |-> FALSE, done |-> <<>>, failed |-> {}, alone |-> TRUE]]
             /\ UNCHANGED <<fsExists, fsUnreadable, fsContent, inflight>>
     /\ UNCHANGED <<now, analysisSlot, contextSlot, dfs, history, lastPut>>

(* the next of the three awaited calls; readFails / writeFails say whether *)
(* its storage reads / writes throw                                        *)
ToolStep(readFails, writeFails) ==
  /\ inflight.tool.pc = "written"
  /\ LET call == ToolSequence[Len(inflight.tool.done) + 1]
         relativePath == inflight.tool.relativePath
         patched == PatchedAnalysis(ReadItem(analysisSlot, readFails), relativePath, TheDisk, now)
         done == Append(inflight.tool.done, call)
     IN /\ analysisSlot' =
             IF call = "updateFileRelationships" /\ patched # NoItem
             THEN WriteItem(analysisSlot, storeProjectAnalysis(patched[1], now), writeFails)
             ELSE analysisSlot
        /\ lastPut' = IF call = "updateFileRelationships" /\ patched # NoItem
                      THEN patched ELSE lastPut
        /\ contextSlot' =
             IF call = "addRecentFile"
             THEN addRecentFileFaulty(contextSlot, relativePath, now, readFails, writeFails)
             ELSE IF call = "setCurrentFocus"
                  THEN setCurrentFocusFaulty(contextSlot, <<relativePath>>, now,
                                             readFails, writeFails)
                  ELSE contextSlot
        /\ inflight' = [inflight EXCEPT
                          !.tool.pc = IF Len(done) = Len(ToolSequence) THEN "tracked" ELSE @,
                          !.tool.done = done,
                          !.tool.failed = IF readFails \/ writeFails THEN @ \cup {call} ELSE @,
                          !.tool.alone = @ /\ inflight.tool.seen = <<analysisSlot, contextSlot>>,
                          !.tool.seen = <<analysisSlot', contextSlot'>>]
        /\ last' = [op |-> "tool/" \o call, arg |-> relativePath, res |-> <<>>]
  /\ UNCHANGED <<fsExists, fsUnreadable, fsContent, now, dfs, history>>

(* generate yields the result of the tool *)
ToolReport ==
  /\ inflight.tool.pc = "tracked"
  /\ last' = [op |-> "tool",
              arg |-> [name |-> inflight.tool.name, filePath |-> inflight.tool.relativePath],
              res |-> [ok |-> TRUE, done |-> inflight.tool.done,
                       failed |-> inflight.tool.failed,
                       alone |-> inflight.tool.alone
                                   /\ inflight.tool.seen = <<analysisSlot, contextSlot>>]]
  /\ inflight' = [inflight EXCEPT !.tool = NoneInflight.tool]
  /\ UNCHANGED <<fsExists, fsUnreadable, fsContent, now, analysisSlot, contextSlot, dfs,
                 history, lastPut>>

(***************************************************************************)
(* Specification SpecTool: write-file and edit-file calls on api/a.ts and  *)
(* api/b.ts, given relative or absolute, before or after an analysis,      *)
(* while setCurrentFocus and getContextFilesToLoad calls of other requests *)
(* run between the awaits of the tool                                      *)
(***************************************************************************)
ToolNames == {"write-file", "edit-file"}

ToolPaths == {Str["api/a.ts"], Absolute(Str["api/b.ts"])}

ToolTexts == { <<Str["./a"]>> }

InitTool ==
  /\ fsExists = {Str["api/a.ts"]}
  /\ fsUnreadable = {}
  /\ fsContent = [p \in GraphFiles |-> <<>>]
  /\ now = 1
  /\ analysisSlot \in {NoItem, storeProjectAnalysis(analyzeProject(TheDisk, 1), 1)}
  /\ contextSlot = NoItem
  /\ last = NoCall
  /\ dfs = IdleDfs
  /\ history = <<>>
  /\ lastPut = NoItem
  /\ inflight = NoneInflight

NextTool ==
  \/ \E name \in ToolNames, filePath \in ToolPaths, text \in ToolTexts, written \in BOOLEAN :
       ToolWrite(name, filePath, text, written)
  \/ \E readFails, writeFails \in BOOLEAN : ToolStep(readFails, writeFails)
  \/ ToolReport
  \/ SetFocus(<<Str["api/u.test.ts"]>>)
  \/ FilesToLoad

SpecTool == InitTool /\ [][NextTool]_vars

(* C21: a write-file or edit-file call whose write succeeded reports its   *)
(* result only after updateFileRelationships(p), addRecentFile(p) and      *)
(* setCurrentFocus([p]) ran in that order; it reports success whichever of *)
(* the three failed; and when none failed and no other call changed the    *)
(* cache in between, the stored context state has currentFocus = [p] and   *)
(* p at the head of recentFiles.                                           *)
C21_WriteEventOrder ==
  /\ (last.op = "tool" /\ last.res.done # <<>>) =>
       /\ last.res.ok
       /\ last.res.done = <<"updateFileRelationships", "addRecentFile", "setCurrentFocus">>
       /\ (last.res.failed = {} /\ last.res.alone) =>
            /\ contextSlot # NoItem
            /\ contextSlot[1].currentFocus = << <<last.arg.filePath>> >>
            /\ contextSlot[1].recentFiles # <<>>
            /\ contextSlot[1].recentFiles[1] = last.arg.filePath
  /\ (last.op = "tool" /\ last.res.ok) => Len(last.res.done) = 3
  /\ inflight.tool.pc = "written" =>
       inflight.tool.done \in { <<>>, <<"updateFileRelationships">>,
                                <<"updateFileRelationships", "addRecentFile">> }

(* a tool call given an absolute path reported success although the        *)
(* storage failed during updateFileRelationships; nothing interfered       *)
C21_Witness ==
  /\ last.op = "tool"
  /\ last.res.ok
  /\ last.res.alone
  /\ last.res.failed = {"updateFileRelationships"}
  /\ last.arg.filePath = Str["api/b.ts"]
  /\ contextSlot # NoItem
  /\ contextSlot[1].currentFocus = << <<Str["api/b.ts"]>> >>
  /\ Len(contextSlot[1].recentFiles) = 2

(***************************************************************************)
(* updateFileRelationships and the age of the analysis                     *)
(***************************************************************************)
(* C22: updateFileRelationships(p) leaves the analyzedAt of the cached     *)
(* analysis as it was, so an analysis that isAnalysisStale reports stale   *)
(* is still reported stale after the patch.                                *)
C22_PatchKeepsAnalyzedAt ==
  [][ (last'.op = "updateFileRelationships" /\ analysisSlot # NoItem) =>
        /\ analysisSlot' # NoItem
        /\ analysisSlot'[1].analyzedAt = analysisSlot[1].analyzedAt
        /\ isAnalysisStale(analysisSlot, now, DEFAULT_MAX_AGE_MS) =>
             isAnalysisStale(analysisSlot', now', DEFAULT_MAX_AGE_MS) ]_vars

(***************************************************************************)
(* The queries and the stored context state                                *)
(***************************************************************************)
(* C23: getRelatedFiles, getContextSummary and getContextFilesToLoad leave *)
(* currentFocus, recentFiles and activeLayer of a stored context state     *)
(* unchanged, so a focus set by setCurrentFocus is still set after them.   *)
C23_QueriesKeepContext ==
  [][ ( /\ last'.op \in {"getRelatedFiles", "getContextSummary", "getContextFilesToLoad"}
        /\ contextSlot # NoItem ) =>
        /\ contextSlot' # NoItem
        /\ \A f \in {"currentFocus", "recentFiles", "activeLayer"} :
             contextSlot'[1][f] = contextSlot[1][f] ]_vars

(***************************************************************************)
(* Specification SpecCycles: validateRelationships on cached edge lists    *)
(* over three files: imports in both directions, cycles of three files,    *)
(* and test and config edges against an import; files are deleted and      *)
(* written again                                                           *)
(***************************************************************************)
CycleEdgeUniverse ==
  {e \in [from : GraphNodes, to : GraphNodes, type : {"import"}] : e.from # e.to}
    \cup [from : {Str["api/b.ts"]}, to : {Str["api/a.ts"]}, type : {"test", "config"}]

InitCycles ==
  /\ fsExists = GraphNodes
  /\ fsUnreadable = {}
  /\ fsContent = [p \in GraphNodes |-> <<>>]
  /\ now = 1
  /\ analysisSlot \in
       {storeProjectAnalysis(AnalysisOf(es), 1) : es \in BoundedSeq(CycleEdgeUniverse, MaxEdges)}
  /\ contextSlot = NoItem
  /\ last = NoCall
  /\ dfs = IdleDfs
  /\ history = <<>>
  /\ lastPut = NoItem
  /\ inflight = NoneInflight

NextCycles ==
  \/ \E p \in {Str["api/a.ts"]} : WriteFile(p, <<>>)
  \/ \E p \in {Str["api/a.ts"]} : DeleteFile(p)
  \/ Validate

SpecCycles == InitCycles /\ [][NextCycles]_vars

(* the relationships validateRelationships reported with the reason *)
Reported(findings, reason) ==
  { [from |-> findings[i].from, to |-> findings[i].to, type |-> findings[i].type] :
      i \in { k \in 1..Len(findings) : findings[k].reason = reason } }

(* C24: validateRelationships reports an import edge A -> B whose from     *)
(* file exists as circular_dependency exactly when an import edge B -> A   *)
(* is in the analysis; an edge that lies only on a longer cycle, and an    *)
(* edge of another type, is never reported as circular.                    *)
C24_ShallowCycles ==
  (last.op = "validateRelationships" /\ analysisSlot # NoItem) =>
    LET rels == analysisSlot[1].relationships
        circular == Reported(last.res, "circular_dependency")
    IN \A i \in 1..Len(rels) :
         /\ (rels[i].type = "import" /\ rels[i].from \in fsExists) =>
              (rels[i] \in circular <=>
                 [from |-> rels[i].to, to |-> rels[i].from, type |-> "import"] \in SeqToSet(rels))
         /\ rels[i].type # "import" => rels[i] \notin circular

(* a cycle of three imports was validated and nothing reported *)
C24_Witness ==
  /\ last.op = "validateRelationships"
  /\ analysisSlot # NoItem
  /\ analysisSlot[1].relationships =
       << [from |-> Str["api/a.ts"], to |-> Str["api/b.ts"], type |-> "import"],
          [from |-> Str["api/b.ts"], to |-> Str["lib/x.ts"], type |-> "import"],
          [from |-> Str["lib/x.ts"], to |-> Str["api/a.ts"], type |-> "import"] >>
  /\ fsExists = GraphNodes
  /\ last.res = <<>>

(***************************************************************************)
(* Bare specifiers in the two resolvers                                    *)
(***************************************************************************)
(* the specifiers of p that are not relative, not skipped, and hold no dot *)
(* and no path separator                                                   *)
BareSpecifiers(p) ==
  { s \in SeqToSet(fsContent[p]) :
      /\ ~SkippedImport(s)
      /\ ~IsRelativeImport(s)
      /\ ~Includes(s, <<".">>)
      /\ ~Includes(s, <<"/">>) }

(* the cached analysis holds an import edge from p to each of its bare     *)
(* specifiers                                                              *)
BareEdgesCached(slot, p) ==
  /\ slot # NoItem
  /\ \A s \in BareSpecifiers(p) :
       [from |-> p, to |-> s, type |-> "import"] \in SeqToSet(slot[1].relationships)

(* the full rebuild records the bare specifiers of every file it scans *)
RebuildRecordsBare ==
  [][ (last'.op = "analyze" /\ ~last'.res.cached) =>
        \A p \in fsExists \ fsUnreadable : BareEdgesCached(analysisSlot', p) ]_vars

(* C25: a specifier that is not relative and holds no dot and no path      *)
(* separator is recorded as an import edge from the scanned file to the    *)
(* package name, by the full rebuild and by updateFileRelationships alike. *)
C25_BareSpecifierEdges ==
  [][ /\ (last'.op = "analyze" /\ ~last'.res.cached) =>
           \A p \in fsExists \ fsUnreadable : BareEdgesCached(analysisSlot', p)
      /\ ( /\ last'.op = "updateFileRelationships"
           /\ analysisSlot # NoItem
           /\ last'.arg \in fsExists \ fsUnreadable ) =>
           BareEdgesCached(analysisSlot', last'.arg) ]_vars

(***************************************************************************)
(* Specification SpecScan: full rebuilds of the relationships of a large   *)
(* project.  The cached structure holds a contract with its test and its   *)
(* deploy script, api/f1.ts .. api/f<n>.ts as backend, app/p.tsx as        *)
(* frontend, z.js as other file, and one of several sets of config files;  *)
(* app/p.tsx and z.js are edited, deleted and patched between the          *)
(* rebuilds, and the test file is patched.                                 *)
(***************************************************************************)
ScanFileName(k) == Str["api"] \o <<"/", "f">> \o Decimal(k) \o Str[".ts"]

(* the numbers of backend files: more than the cap of config edges, and    *)
(* around the cap of scanned files                                         *)
ScanSizes == {21, 98, 99, 100}

ScanConfigs ==
  { <<Str["tsconfig.json"]>>,
    <<Str["api/tsconfig.json"], Str["app/next.config.js"]>>,
    <<Str["app/tsconfig.json"], Str["package.json"]>> }

ScanProbes == {Str["app/p.tsx"], Str["z.js"]}

ScanStructure(n, config) ==
  [contracts |-> <<Str["contracts/Token.sol"]>>,
   backend |-> [k \in 1..n |-> ScanFileName(k)],
   frontend |-> <<Str["app/p.tsx"]>>,
   tests |-> <<Str["test/Token.test.ts"]>>,
   config |-> config,
   scripts |-> <<Str["scripts/deploy.ts"]>>,
   other |-> <<Str["z.js"]>>]

InitScan ==
  \E n \in ScanSizes, config \in ScanConfigs :
    LET structure == ScanStructure(n, config)
        files == AllFiles(structure) \cup SeqToSet(config)
        content == [p \in files |->
                      IF p = Str["scripts/deploy.ts"] THEN <<Str["./Token"]>>
                      ELSE IF p = ScanFileName(1) THEN <<Str["lodash"]>>
                      ELSE <<>>]
    IN /\ fsExists = files
       /\ fsUnreadable = {}
       /\ fsContent = content
       /\ now = 1
       /\ analysisSlot =
            storeProjectAnalysis(
              [stack |-> NullStack, structure |-> structure,
               relationships |-> buildDependencyGraph(structure, Disk(files, {}, content)),
               rootPath |-> Str["/proj"], analyzedAt |-> 1], 1)
       /\ contextSlot = NoItem
       /\ last = NoCall
       /\ dfs = IdleDfs
       /\ history = <<>>
       /\ lastPut = NoItem
       /\ inflight = NoneInflight

NextScan ==
  \/ \E p \in ScanProbes, text \in { <<>>, <<Str["lodash"]>> } : WriteFile(p, text)
  \/ \E p \in ScanProbes : DeleteFile(p)
  \/ RefreshAll
  \/ \E p \in ScanProbes \cup {Str["test/Token.test.ts"]} : PatchFile(p)

SpecScan == InitScan /\ [][NextScan]_vars

(* the TypeScript / JavaScript files of backend, frontend and other, in    *)
(* this order                                                              *)
ScanOrder(structure) ==
  SelectSeq(structure.backend \o structure.frontend \o structure.other, IsTsJs)

(* the position of f in the sequence, 0 when it is not in it *)
PositionIn(seq, f) ==
  IF f \in SeqToSet(seq) THEN CHOOSE i \in 1..Len(seq) : seq[i] = f ELSE 0

(* C26: after a full rebuild every import edge starts at one of the first  *)
(* 100 TypeScript / JavaScript files of backend, frontend, other; a file   *)
(* beyond the 100th has no import edge, a readable file among the first    *)
(* 100 has its edges; the test, script and tsconfig edges are recorded     *)
(* wherever their files stand.                                             *)
C26_ScanBound ==
  last.op = "refreshAllRelationships" =>
    LET structure == analysisSlot[1].structure
        rels == SeqToSet(analysisSlot[1].relationships)
        order == ScanOrder(structure)
    IN /\ \A e \in rels :
            e.type = "import" => PositionIn(order, e.from) \in 1..100
       /\ \A f \in SeqToSet(order) \cap fsExists :
            [from |-> f, to |-> Str["lodash"], type |-> "import"] \in rels
              <=> (fsContent[f] = <<Str["lodash"]>> /\ PositionIn(order, f) <= 100)
       /\ [from |-> Str["test/Token.test.ts"], to |-> Str["contracts/Token.sol"],
           type |-> "test"] \in rels
       /\ [from |-> Str["scripts/deploy.ts"], to |-> Str["contracts/Token.sol"],
           type |-> "config"] \in rels
       /\ Str["app/tsconfig.json"] \in SeqToSet(structure.config) =>
            [from |-> Str["app/p.tsx"], to |-> Str["app/tsconfig.json"],
             type |-> "config"] \in rels

(* a rebuild with 99 backend files: app/p.tsx, the 100th file, has its     *)
(* import edge, and z.js, the 101st, which holds the same import, has none *)
C26_Witness ==
  /\ last.op = "refreshAllRelationships"
  /\ Len(analysisSlot[1].structure.backend) = 99
  /\ {Str["app/p.tsx"], Str["z.js"]} \subseteq fsExists
  /\ fsContent[Str["app/p.tsx"]] = <<Str["lodash"]>>
  /\ fsContent[Str["z.js"]] = <<Str["lodash"]>>
  /\ [from |-> Str["app/p.tsx"], to |-> Str["lodash"], type |-> "import"]
       \in SeqToSet(analysisSlot[1].relationships)
  /\ \A e \in SeqToSet(analysisSlot[1].relationships) : e.from # Str["z.js"]

(* the directory of p as path segments; <<>> is the project root *)
IsUnderDirectoryOf(f, configFile) ==
  LET dir == DirSegments(configFile)
      fileDir == DirSegments(f)
  IN Len(dir) <= Len(fileDir) /\ SubSeq(fileDir, 1, Len(dir)) = dir

(* C27: after a full rebuild, each config file named tsconfig.json, at the *)
(* root or in a subdirectory, has config edges from the TypeScript files   *)
(* of backend and frontend whose directory is its directory or lies under  *)
(* it, from all of them or from 20 when there are more; a config file of   *)
(* another name has none.                                                  *)
C27_TsconfigEdges ==
  last.op = "refreshAllRelationships" =>
    LET structure == analysisSlot[1].structure
    IN \A c \in SeqToSet(structure.config) :
         LET edges == SelectSeq(analysisSlot[1].relationships,
                                LAMBDA e : e.type = "config" /\ e.to = c)
             covered == SelectSeq(structure.backend \o structure.frontend, LAMBDA f :
                          HasExt(f, {Str["ts"], Str["tsx"]}) /\ IsUnderDirectoryOf(f, c))
         IN IF Basename(c) = Str["tsconfig.json"]
            THEN /\ \A i \in 1..Len(edges) : edges[i].from \in SeqToSet(covered)
                 /\ Len(edges) = IF Len(covered) > 20 THEN 20 ELSE Len(covered)
            ELSE edges = <<>>

(***************************************************************************)
(* updateFileRelationships on a file that cannot be read                   *)
(***************************************************************************)
(* C28: when p exists on disk and cannot be read, the cached analysis      *)
(* holds no edge from p or to p after updateFileRelationships(p).          *)
C28_UnreadableNoEdges ==
  [][ ( /\ last'.op = "updateFileRelationships"
        /\ analysisSlot # NoItem
        /\ last'.arg \in fsExists \cap fsUnreadable ) =>
        /\ analysisSlot' # NoItem
        /\ \A i \in 1..Len(analysisSlot'[1].relationships) :
             /\ analysisSlot'[1].relationships[i].from # last'.arg
             /\ analysisSlot'[1].relationships[i].to # last'.arg ]_vars

(***************************************************************************)
(* The single-file patch against the full rebuild                          *)
(***************************************************************************)
(* the cached edges that start at p *)
EdgesFrom(slot, p) ==
  IF slot = NoItem THEN {}
  ELSE { e \in SeqToSet(slot[1].relationships) : e.from = p }

(* C29: updateFileRelationships(p) right after a full rebuild, with p      *)
(* unchanged, leaves the cached edges that start at p as the rebuild made  *)
(* them, whatever their type and whatever the category of p.               *)
C29_PatchAgreesWithRebuild ==
  [][ (last.op = "refreshAllRelationships" /\ last'.op = "updateFileRelationships") =>
        EdgesFrom(analysisSlot', last'.arg) = EdgesFrom(analysisSlot, last'.arg) ]_vars

(***************************************************************************)
(* Concurrent writers of the context state                                 *)
(***************************************************************************)
(* C30: once the concurrent addRecentFile and setCurrentFocus calls have   *)
(* all returned, every file they added is in the stored recentFiles, as it *)
(* would be had the calls run one after the other.                         *)
C30_NoLostUpdate ==
  (\A c \in Callers : inflight.adds[c].pc = "idle") =>
    \A i \in 1..Len(history) : normalizePath(history[i]) \in SeqToSet(StoredRecentFiles)

====
